---- MODULE Spec2Model ----
(***************************************************************************)
(* TabbedBoxMaker: the design system (box_design.py) and the generator     *)
(* (boxmaker_core.py) as a state machine.                                  *)
(*                                                                         *)
(* Lengths are millimetres held as exact rationals <<n, d>> in lowest      *)
(* terms with d > 0, so that n/d is the value the Python float arithmetic  *)
(* approximates.  Exceptions are held by the name of their class.          *)
(***************************************************************************)
EXTENDS Integers, Sequences, FiniteSets, TLC

(***************************************************************************)
(* Exact rational arithmetic                                               *)
(***************************************************************************)
Abs(n) == IF n < 0 THEN -n ELSE n

RECURSIVE GCD(_, _)
GCD(a, b) == IF b = 0 THEN a ELSE GCD(b, a % b)

Q(n, d) ==
    IF n = 0 THEN <<0, 1>>
    ELSE LET s == IF d < 0 THEN -1 ELSE 1
             g == GCD(Abs(n), Abs(d))
         IN  <<(s * n) \div g, (s * d) \div g>>

I(n) == <<n, 1>>

QAdd(a, b) == Q(a[1] * b[2] + b[1] * a[2], a[2] * b[2])
QSub(a, b) == Q(a[1] * b[2] - b[1] * a[2], a[2] * b[2])
QMul(a, b) == Q(a[1] * b[1], a[2] * b[2])
QDiv(a, b) == Q(a[1] * b[2], a[2] * b[1])
QNeg(a) == <<-a[1], a[2]>>
QLt(a, b) == a[1] * b[2] < b[1] * a[2]
QLe(a, b) == a[1] * b[2] <= b[1] * a[2]
QGt(a, b) == QLt(b, a)
QGe(a, b) == QLe(b, a)
QAbs(a) == <<Abs(a[1]), a[2]>>
QMin(a, b) == IF QLe(a, b) THEN a ELSE b
QMax(a, b) == IF QLe(a, b) THEN b ELSE a
QIsZero(a) == a[1] = 0
\* math.floor, math.ceil and int() (truncation toward zero) of a rational
QFloor(a) == a[1] \div a[2]
QCeil(a) == -((-a[1]) \div a[2])
QTrunc(a) == IF a[1] >= 0 THEN a[1] \div a[2] ELSE -((-a[1]) \div a[2])

RECURSIVE QSum(_)
QSum(s) == IF s = << >> THEN I(0) ELSE QAdd(Head(s), QSum(Tail(s)))

RECURSIVE QMinSeq(_)
QMinSeq(s) == IF Len(s) = 1 THEN s[1] ELSE QMin(s[1], QMinSeq(Tail(s)))

Take(s, n) == SubSeq(s, 1, IF n < Len(s) THEN n ELSE Len(s))

(***************************************************************************)
(* boxmaker_constants.py                                                   *)
(***************************************************************************)
FULL_BOX == 1
NO_TOP == 2
NO_BOTTOM == 3
NO_SIDES == 4
NO_FRONT_BACK == 5
NO_LEFT_RIGHT == 6
BoxType == FULL_BOX .. NO_LEFT_RIGHT

\* the error kinds of the taxonomy (boxmaker_exceptions) and the two
\* built-in exceptions the code can also raise
NoError == "none"
DimensionError == "DimensionError"
MaterialError == "MaterialError"
TabError == "TabError"
ValidationError == "ValidationError"
ValueError == "ValueError"
ZeroDivisionError == "ZeroDivisionError"
TaxonomyErrors == {DimensionError, MaterialError, TabError, ValidationError}

\* tolerance of the compartment checks, 0.001 mm
Tolerance == Q(1, 1000)

\* "Never less than 1x thickness", "Never more than 6x thickness", "25%"
MIN_OVERLAP_MULTIPLIER == I(1)
MAX_OVERLAP_MULTIPLIER == I(6)
MIN_SPLIT_PIECE_RATIO == Q(1, 4)

(***************************************************************************)
(* box_design.py: get_wall_configuration                                   *)
(***************************************************************************)
get_wall_configuration(box_type) ==
    [has_top    |-> box_type \notin {NO_TOP, NO_BOTTOM, NO_SIDES, NO_LEFT_RIGHT},
     has_bottom |-> box_type \notin {NO_BOTTOM, NO_SIDES},
     has_front  |-> box_type \notin {NO_FRONT_BACK, NO_LEFT_RIGHT},
     has_back   |-> box_type \notin {NO_FRONT_BACK, NO_LEFT_RIGHT},
     has_left   |-> box_type \notin {NO_SIDES},
     has_right  |-> box_type \notin {NO_SIDES, NO_LEFT_RIGHT}]

B2I(b) == IF b THEN 1 ELSE 0

(***************************************************************************)
(* box_design.py: parse_compartment_sizes.  A string is a sequence of      *)
(* one-character strings.                                                  *)
(***************************************************************************)
Digits == {"0", "1", "2", "3", "4", "5", "6", "7", "8", "9"}

DigitValue(c) ==
    CASE c = "0" -> 0 [] c = "1" -> 1 [] c = "2" -> 2 [] c = "3" -> 3
      [] c = "4" -> 4 [] c = "5" -> 5 [] c = "6" -> 6 [] c = "7" -> 7
      [] c = "8" -> 8 [] c = "9" -> 9

\* str.split(sep): the pieces between the separators, empty pieces kept
RECURSIVE SplitAcc(_, _, _)
SplitAcc(s, sep, cur) ==
    IF s = << >> THEN <<cur>>
    ELSE IF Head(s) = sep THEN <<cur>> \o SplitAcc(Tail(s), sep, << >>)
    ELSE SplitAcc(Tail(s), sep, Append(cur, Head(s)))

StrSplit(s, sep) == SplitAcc(s, sep, << >>)

\* str.strip() for blanks
RECURSIVE LStrip(_)
LStrip(s) == IF s # << >> /\ Head(s) = " " THEN LStrip(Tail(s)) ELSE s

RECURSIVE RStrip(_)
RStrip(s) ==
    IF s # << >> /\ s[Len(s)] = " " THEN RStrip(SubSeq(s, 1, Len(s) - 1)) ELSE s

StrStrip(s) == RStrip(LStrip(s))

StrKeepComma(s) == s

\* part.replace(',', '.')
StrReplaceComma(s) == [i \in 1..Len(s) |-> IF s[i] = "," THEN "." ELSE s[i]]

RECURSIVE DigitsValue(_)
DigitsValue(s) ==
    IF s = << >> THEN 0
    ELSE 10 * DigitsValue(SubSeq(s, 1, Len(s) - 1)) + DigitValue(s[Len(s)])

RECURSIVE Pow10(_)
Pow10(k) == IF k = 0 THEN 1 ELSE 10 * Pow10(k - 1)

\* float(text) for the decimal notation [sign] digits [ "." digits ] with at
\* least one digit; every other text of the alphabet raises ValueError
ParseFloat(text) ==
    LET neg  == text # << >> /\ Head(text) = "-"
        body == IF text # << >> /\ Head(text) \in {"-", "+"} THEN Tail(text) ELSE text
        dots == {i \in 1..Len(body) : body[i] = "."}
        dot  == IF dots = {} THEN Len(body) + 1 ELSE CHOOSE i \in dots : TRUE
        ip   == SubSeq(body, 1, dot - 1)
        fp   == SubSeq(body, dot + 1, Len(body))
        ok   == /\ Cardinality(dots) <= 1
                /\ \A i \in 1..Len(body) : body[i] \in Digits \cup {"."}
                /\ Len(ip) + Len(fp) >= 1
        mag  == QAdd(I(DigitsValue(ip)), Q(DigitsValue(fp), Pow10(Len(fp))))
    IN  IF ok THEN [ok |-> TRUE, val |-> IF neg THEN QNeg(mag) ELSE mag]
        ELSE [ok |-> FALSE, val |-> I(0)]

RECURSIVE ParseParts(_)
ParseParts(parts) ==
    IF parts = << >> THEN [exc |-> NoError, sizes |-> << >>]
    ELSE LET part == StrStrip(Head(parts))
             rest == ParseParts(Tail(parts))
             f    == ParseFloat(StrReplaceComma(part))
         IN  IF part = << >> THEN rest
             ELSE IF ~f.ok \/ QLe(f.val, I(0)) THEN [exc |-> ValueError, sizes |-> << >>]
             ELSE IF rest.exc # NoError THEN rest
             ELSE [exc |-> NoError, sizes |-> <<f.val>> \o rest.sizes]

parse_compartment_sizes(sizes_string) ==
    IF sizes_string = << >> \/ StrStrip(sizes_string) = << >>
    THEN [exc |-> NoError, sizes |-> << >>]
    ELSE ParseParts(StrSplit(sizes_string, ";"))

(***************************************************************************)
(* box_design.py: calculate_divider_configuration                          *)
(***************************************************************************)
Repeat(x, n) == [i \in 1..n |-> x]

NoDividerInfo ==
    [count |-> 0, positions |-> << >>, compartment_sizes |-> << >>,
     spacing |-> << >>, custom_sizes |-> << >>]

DividerPositionsWithoutThickness(compartment_sizes, num_dividers, thickness) ==
    [i \in 1..num_dividers |-> QSum(SubSeq(compartment_sizes, 1, i))]

\* positions: the running sum of the compartments before divider i plus the
\* thickness of the dividers already placed
DividerPositions(compartment_sizes, num_dividers, thickness) ==
    [i \in 1..num_dividers |->
        QAdd(QSum(SubSeq(compartment_sizes, 1, i)), QMul(I(i - 1), thickness))]

\* spacing: compartment, thickness, compartment, ..., compartment
DividerSpacing(compartment_sizes, num_dividers, thickness) ==
    [j \in 1..(2 * num_dividers + 1) |->
        IF j % 2 = 1 THEN compartment_sizes[(j + 1) \div 2] ELSE thickness]

SingleCompartmentNoSpacing(internal_dimension, custom_sizes) ==
    [count |-> 0, positions |-> << >>,
     compartment_sizes |-> <<internal_dimension>>,
     spacing |-> << >>,
     custom_sizes |-> custom_sizes]

\* the branch without dividers: one compartment, the internal dimension
SingleCompartment(internal_dimension, custom_sizes) ==
    [count |-> 0, positions |-> << >>,
     compartment_sizes |-> <<internal_dimension>>,
     spacing |-> <<internal_dimension>>,
     custom_sizes |-> custom_sizes]

\* fully specified sizes: custom_sizes[:num_compartments]
StrictSizesAll(custom_sizes, num_compartments) == custom_sizes

StrictSizes(custom_sizes, num_compartments) == Take(custom_sizes, num_compartments)

PartialSizesUndivided(custom_sizes, remaining_space, remaining_compartments) ==
    custom_sizes \o Repeat(remaining_space, remaining_compartments)

\* partly specified sizes: the given ones, then the remaining space in equal
\* shares
PartialSizes(custom_sizes, remaining_space, remaining_compartments) ==
    custom_sizes \o
        Repeat(QDiv(remaining_space, I(remaining_compartments)), remaining_compartments)

calculate_divider_configuration(internal_dimension, custom_sizes, num_dividers, thickness) ==
    LET num_compartments == num_dividers + 1
        available == QSub(internal_dimension, QMul(I(num_dividers), thickness))
        strict == StrictSizes(custom_sizes, num_compartments)
        used_space == QSum(custom_sizes)
        remaining_compartments == num_compartments - Len(custom_sizes)
        remaining_space == QSub(available, used_space)
        sizes ==
            IF custom_sizes = << >>
            THEN Repeat(QDiv(available, I(num_compartments)), num_compartments)
            ELSE IF Len(custom_sizes) >= num_compartments THEN strict
            ELSE PartialSizes(custom_sizes, remaining_space, remaining_compartments)
        fail == [exc |-> ValidationError, info |-> NoDividerInfo]
    IN  IF num_dividers < 0 THEN fail
        ELSE IF num_dividers = 0
        THEN [exc |-> NoError, info |-> SingleCompartment(internal_dimension, custom_sizes)]
        ELSE IF QLe(available, I(0)) THEN fail
        ELSE IF /\ custom_sizes # << >>
                /\ Len(custom_sizes) >= num_compartments
                /\ QGt(QAbs(QSub(QSum(strict), available)), Tolerance)
        THEN fail
        ELSE IF /\ custom_sizes # << >>
                /\ Len(custom_sizes) < num_compartments
                /\ QLt(remaining_space, I(0))
        THEN fail
        ELSE [exc |-> NoError,
              info |-> [count |-> num_dividers,
                        positions |-> DividerPositions(sizes, num_dividers, thickness),
                        compartment_sizes |-> sizes,
                        spacing |-> DividerSpacing(sizes, num_dividers, thickness),
                        custom_sizes |-> custom_sizes]]

(***************************************************************************)
(* box_design.py: BoxDesign.__post_init__                                  *)
(***************************************************************************)
validate_dividers(dividers, internal_dim) ==
    IF dividers.count = 0 THEN NoError
    ELSE IF \E i \in 1..Len(dividers.compartment_sizes) :
                QLe(dividers.compartment_sizes[i], I(0))
    THEN ValidationError
    ELSE IF QGt(QAbs(QSub(QSum(dividers.spacing), internal_dim)), Tolerance)
    THEN ValidationError
    ELSE NoError

validate_design(d) ==
    IF QLe(d.length_internal, I(0)) THEN DimensionError
    ELSE IF QLe(d.width_internal, I(0)) THEN DimensionError
    ELSE IF QLe(d.height_internal, I(0)) THEN DimensionError
    ELSE IF validate_dividers(d.length_dividers, d.length_internal) # NoError
    THEN validate_dividers(d.length_dividers, d.length_internal)
    ELSE validate_dividers(d.width_dividers, d.width_internal)

(***************************************************************************)
(* box_design.py: get_piece_dimensions, check_material_limits              *)
(***************************************************************************)
PieceNames == {"front", "back", "left", "right", "top", "bottom"}

\* the panels of the design: name -> <<width, height>>
get_piece_dimensions(design) ==
    LET w == get_wall_configuration(design.box_type)
        present == {n \in PieceNames :
                      \/ n = "front" /\ w.has_front
                      \/ n = "back" /\ w.has_back
                      \/ n = "left" /\ w.has_left
                      \/ n = "right" /\ w.has_right
                      \/ n = "top" /\ w.has_top
                      \/ n = "bottom" /\ w.has_bottom}
    IN  [n \in present |->
            IF n \in {"front", "back"} THEN <<design.length_external, design.height_external>>
            ELSE IF n \in {"left", "right"} THEN <<design.width_external, design.height_external>>
            ELSE <<design.length_external, design.width_external>>]

SplitOverlapUnclamped(thickness, overlap_multiplier) == QMul(thickness, overlap_multiplier)

\* overlap = max(min_overlap, min(base_overlap, max_overlap))
SplitOverlap(thickness, overlap_multiplier) ==
    QMax(QMul(thickness, MIN_OVERLAP_MULTIPLIER),
         QMin(QMul(thickness, overlap_multiplier),
              QMul(thickness, MAX_OVERLAP_MULTIPLIER)))

needs_width_split(design, dims) ==
    QGt(design.max_material_width, I(0)) /\ QGt(dims[1], design.max_material_width)

needs_height_split(design, dims) ==
    QGt(design.max_material_height, I(0)) /\ QGt(dims[2], design.max_material_height)

SplitNumPiecesTwo(dimension, limit, overlap) ==
    IF QIsZero(QSub(limit, overlap)) THEN 0 ELSE 2

SplitNumPiecesFit(dimension, limit, overlap) ==
    IF QIsZero(QSub(limit, overlap)) THEN 0
    ELSE QCeil(QDiv(dimension, QSub(limit, overlap)))

\* the piece count of one split: dimension over (limit - overlap), rounded
\* up, then cut back by the 25% rule; 0 stands for a division by zero
SplitNumPieces(dimension, limit, overlap) ==
    LET available_per_piece == QSub(limit, overlap)
        initial_num_pieces == QCeil(QDiv(dimension, available_per_piece))
        min_piece_size == QMul(limit, MIN_SPLIT_PIECE_RATIO)
        actual_piece_size == QDiv(dimension, I(initial_num_pieces))
        max_allowed_pieces == QFloor(QDiv(dimension, min_piece_size))
    IN  IF QIsZero(available_per_piece) THEN 0
        ELSE IF initial_num_pieces = 0 THEN 0
        ELSE IF QLt(actual_piece_size, min_piece_size)
        THEN (IF max_allowed_pieces > 2 THEN max_allowed_pieces ELSE 2)
        ELSE initial_num_pieces

\* the cut lines: i * (height / n) for a horizontal split; the vertical
\* branch recomputes them as i * available_per_piece
SplitPositions(direction, dimension, limit, overlap, num_pieces) ==
    [i \in 1..(num_pieces - 1) |->
        IF direction = "horizontal"
        THEN QMul(I(i), QDiv(dimension, I(num_pieces)))
        ELSE QMul(I(i), QSub(limit, overlap))]

SplitInfoFor(design, dims) ==
    LET overlap == SplitOverlap(design.thickness, design.overlap_multiplier)
        direction == IF needs_height_split(design, dims) THEN "horizontal" ELSE "vertical"
        dimension == IF direction = "horizontal" THEN dims[2] ELSE dims[1]
        limit == IF direction = "horizontal" THEN design.max_material_height
                 ELSE design.max_material_width
        n == SplitNumPieces(dimension, limit, overlap)
    IN  [needs_splitting |-> TRUE,
         split_direction |-> direction,
         num_pieces |-> n,
         overlap |-> overlap,
         split_positions |-> SplitPositions(direction, dimension, limit, overlap, n),
         join_type |-> design.join_type,
         min_piece_size |-> QMul(limit, MIN_SPLIT_PIECE_RATIO)]

\* the panels that get a split plan
OversizedPieces(design) ==
    LET dims == get_piece_dimensions(design)
    IN  {n \in DOMAIN dims : needs_width_split(design, dims[n]) \/ needs_height_split(design, dims[n])}

check_material_limits(design) ==
    LET dims == get_piece_dimensions(design)
        plans == [n \in OversizedPieces(design) |-> SplitInfoFor(design, dims[n])]
    IN  IF QLe(design.max_material_width, I(0)) /\ QLe(design.max_material_height, I(0))
        THEN [exc |-> NoError, split_info |-> << >>]
        ELSE IF \E n \in DOMAIN plans : plans[n].num_pieces = 0
        THEN [exc |-> ZeroDivisionError, split_info |-> << >>]
        ELSE [exc |-> NoError, split_info |-> plans]

(***************************************************************************)
(* box_design.py: create_box_design                                        *)
(***************************************************************************)
NoDesign == [exists |-> FALSE]

WallThicknessBothWalls(thickness, wall_a, wall_b) == QMul(thickness, I(2))

\* thickness * (number of bounding walls present on the axis)
WallThickness(thickness, wall_a, wall_b) ==
    QMul(thickness, I(B2I(wall_a) + B2I(wall_b)))

ExternalOf(inside, value, contribution) ==
    IF inside THEN QAdd(value, contribution) ELSE value

InternalOf(inside, value, contribution) ==
    IF inside THEN value ELSE QSub(value, contribution)

\* the design as built before its validation and the material limit check
InitialDesign(a, length_dividers, width_dividers) ==
    LET w == get_wall_configuration(a.box_type)
        cl == WallThickness(a.thickness, w.has_left, w.has_right)
        cw == WallThickness(a.thickness, w.has_front, w.has_back)
        ch == WallThickness(a.thickness, w.has_bottom, w.has_top)
    IN  [exists |-> TRUE,
         length |-> a.length, width |-> a.width, height |-> a.height,
         thickness |-> a.thickness, inside |-> a.inside,
         length_external |-> ExternalOf(a.inside, a.length, cl),
         width_external |-> ExternalOf(a.inside, a.width, cw),
         height_external |-> ExternalOf(a.inside, a.height, ch),
         length_internal |-> InternalOf(a.inside, a.length, cl),
         width_internal |-> InternalOf(a.inside, a.width, cw),
         height_internal |-> InternalOf(a.inside, a.height, ch),
         length_dividers |-> length_dividers,
         width_dividers |-> width_dividers,
         box_type |-> a.box_type, style |-> a.style,
         max_material_width |-> a.max_material_width,
         max_material_height |-> a.max_material_height,
         overlap_multiplier |-> a.overlap_multiplier,
         join_type |-> a.join_type,
         has_split_info |-> FALSE,
         split_info |-> << >>]

create_box_design(a) ==
    LET w == get_wall_configuration(a.box_type)
        d0 == InitialDesign(a, NoDividerInfo, NoDividerInfo)
        pl == parse_compartment_sizes(a.div_l_custom)
        pw == parse_compartment_sizes(a.div_w_custom)
        dl == calculate_divider_configuration(d0.length_internal, pl.sizes, a.div_l, a.thickness)
        dw == calculate_divider_configuration(d0.width_internal, pw.sizes, a.div_w, a.thickness)
        design == InitialDesign(a, dl.info, dw.info)
        limits == check_material_limits(design)
        raise(e) == [exc |-> e, design |-> NoDesign]
    IN  IF QLe(a.length, I(0)) \/ QLe(a.width, I(0)) \/ QLe(a.height, I(0)) THEN raise(DimensionError)
        ELSE IF QLe(a.thickness, I(0)) THEN raise(DimensionError)
        ELSE IF QGe(a.thickness, QDiv(QMin(a.length, QMin(a.width, a.height)), I(2)))
        THEN raise(DimensionError)
        ELSE IF QLe(d0.length_internal, I(0)) /\ (w.has_left \/ w.has_right) THEN raise(DimensionError)
        ELSE IF QLe(d0.width_internal, I(0)) /\ (w.has_front \/ w.has_back) THEN raise(DimensionError)
        ELSE IF QLe(d0.height_internal, I(0)) /\ (w.has_bottom \/ w.has_top) THEN raise(DimensionError)
        ELSE IF pl.exc # NoError THEN raise(pl.exc)
        ELSE IF pw.exc # NoError THEN raise(pw.exc)
        ELSE IF dl.exc # NoError THEN raise(dl.exc)
        ELSE IF dw.exc # NoError THEN raise(dw.exc)
        ELSE IF validate_design(design) # NoError THEN raise(validate_design(design))
        ELSE IF ~(QGt(a.max_material_width, I(0)) \/ QGt(a.max_material_height, I(0)))
        THEN [exc |-> NoError, design |-> design]
        ELSE IF limits.exc # NoError THEN raise(limits.exc)
        ELSE [exc |-> NoError,
              design |-> [design EXCEPT !.has_split_info = (DOMAIN limits.split_info # {}),
                                        !.split_info = limits.split_info]]

(***************************************************************************)
(* boxmaker_core.py: BoxMakerCore.__init__, set_parameters                 *)
(*   A generator is a record of its attributes.  The attributes written    *)
(*   only by generate_box (nomTab .. keydivfloor) are absent until the     *)
(*   first call that gets that far, which is what hasattr() looks at.      *)
(***************************************************************************)
MIN_DIMENSION == I(40)
MAX_DIMENSION == I(10000)
MIN_THICKNESS == Q(1, 10)
MAX_THICKNESS == I(50)
MIN_TAB_WIDTH == I(2)
MIN_TAB_TO_THICKNESS_RATIO == Q(1, 2)
MAX_TAB_TO_THICKNESS_RATIO == I(20)
HairlineThickness == Q(508, 10000)

InitCore ==
    [unit |-> "mm", inside |-> FALSE,
     length |-> I(100), width |-> I(100), height |-> I(100),
     tab |-> I(25), equal |-> 0, tabsymmetry |-> 0, tabtype |-> 0,
     dimpleheight |-> I(0), dimplelength |-> I(0), hairline |-> 0,
     thickness |-> I(3), kerf |-> Q(1, 2), style |-> 1, spacing |-> I(25),
     boxtype |-> FULL_BOX, div_l |-> 0, div_w |-> 0,
     div_l_custom |-> << >>, div_w_custom |-> << >>,
     keydiv |-> 3, optimize |-> TRUE,
     max_material_width |-> I(0), max_material_height |-> I(0),
     overlap_multiplier |-> I(3), join_type |-> 0,
     linethickness |-> I(1), paths |-> << >>, circles |-> << >>,
     design |-> NoDesign]

\* for key, value in kwargs.items(): if hasattr(self, key): setattr(...)
set_parameters(self, kwargs) ==
    [k \in DOMAIN self |-> IF k \in DOMAIN kwargs THEN kwargs[k] ELSE self[k]]

\* self.<name> = value, creating the attribute when it is not there yet
SetAttrs(self, attrs) ==
    [k \in DOMAIN self \cup DOMAIN attrs |->
        IF k \in DOMAIN attrs THEN attrs[k] ELSE self[k]]

(***************************************************************************)
(* boxmaker_core.py: BoxMakerCore._validate_dimensions                     *)
(***************************************************************************)
MinRequiredGeneral(self, name) == MIN_DIMENSION

\* min_required: the general minimum, relaxed for the height without a top
MinRequired(self, name) ==
    IF name = "height" /\ ~get_wall_configuration(self.boxtype).has_top
    THEN QAdd(QMul(self.thickness, I(2)), I(5))
    ELSE MIN_DIMENSION

DimensionOutOfRange(self, name) ==
    QLt(self[name], MinRequired(self, name)) \/ QGt(self[name], MAX_DIMENSION)

MinOfAllDimensions(self) == QMin(self.length, QMin(self.width, self.height))

\* min(relevant_dimensions): height counts only with a top or a bottom
MinRelevantDimension(self) ==
    LET w == get_wall_configuration(self.boxtype)
    IN  IF w.has_top \/ w.has_bottom
        THEN QMin(self.length, QMin(self.width, self.height))
        ELSE QMin(self.length, self.width)

validate_dimensions(self) ==
    LET min_tab_for_thickness == QMul(self.thickness, MIN_TAB_TO_THICKNESS_RATIO)
        absolute_max_tab == QMul(self.thickness, MAX_TAB_TO_THICKNESS_RATIO)
        min_relevant_dimension == MinRelevantDimension(self)
        max_physical_tab == QDiv(min_relevant_dimension, I(3))
    IN  IF \E name \in {"length", "width", "height"} : DimensionOutOfRange(self, name)
        THEN DimensionError
        ELSE IF QLt(self.thickness, MIN_THICKNESS) THEN MaterialError
        ELSE IF QGt(self.thickness, MAX_THICKNESS) THEN MaterialError
        ELSE IF QLt(self.tab, MIN_TAB_WIDTH) THEN TabError
        ELSE IF QLt(self.tab, min_tab_for_thickness) THEN TabError
        ELSE IF QGt(self.tab, max_physical_tab) THEN TabError
        ELSE IF QGt(self.tab, absolute_max_tab) /\ QLe(self.tab, max_physical_tab)
        THEN TabError
        ELSE IF QGe(self.thickness, QDiv(min_relevant_dimension, I(2))) THEN MaterialError
        ELSE IF QGt(self.thickness, max_physical_tab) THEN MaterialError
        ELSE NoError

(***************************************************************************)
(* boxmaker_core.py: BoxMakerCore.side                                     *)
(*   A path is its data, the sequence of its points <<x, y>> (the first is *)
(*   the M point, the others are L points), and its stroke width.          *)
(***************************************************************************)
QS(k, a) == Q(k * a[1], a[2])
Pt(x, y) == <<x, y>>
PyMod2(n) == ((n % 2) + 2) % 2

get_line_path(self, XYstring) ==
    [data |-> XYstring, stroke_width |-> self.linethickness]

get_divider_position(dividerPositions, dividerNumber) ==
    IF Len(dividerPositions) > 0 /\ dividerNumber <= Len(dividerPositions)
    THEN dividerPositions[dividerNumber]
    ELSE I(0)

DivisionsAsCounted(self, length) ==
    IF self.tabSymmetry = 1
    THEN QTrunc(QDiv(QSub(length, QS(2, self.thickness)), self.nomTab))
    ELSE QTrunc(QDiv(length, self.nomTab))

\* int(length / nomTab) made odd, or int((length - 2t) / nomTab) made even
Divisions(self, length) ==
    IF self.tabSymmetry = 1
    THEN LET d == QTrunc(QDiv(QSub(length, QS(2, self.thickness)), self.nomTab))
         IN  IF PyMod2(d) = 1 THEN d + 1 ELSE d
    ELSE LET d == QTrunc(QDiv(length, self.nomTab))
         IN  IF PyMod2(d) = 0 THEN d - 1 ELSE d

\* gapWidth and tabWidth after the kerf correction
SideWidths(self, length, isTab) ==
    LET divisions == Divisions(self, length)
        tabs == IF self.tabSymmetry = 1 THEN Q(divisions, 2) ELSE Q(divisions - 1, 2)
        inner == QSub(length, QS(2, self.thickness))
        fail == [exc |-> ZeroDivisionError, gapWidth |-> I(0), tabWidth |-> I(0)]
        ok(g, t) ==
            [exc |-> NoError,
             gapWidth |-> IF isTab # 0 THEN QSub(g, self.kerf) ELSE QAdd(g, self.kerf),
             tabWidth |-> IF isTab # 0 THEN QAdd(t, self.kerf) ELSE QSub(t, self.kerf)]
    IN  IF self.tabSymmetry = 1
        THEN (IF divisions = 0 THEN fail
              ELSE ok(QDiv(inner, I(divisions)), QDiv(inner, I(divisions))))
        ELSE IF self.equalTabs # 0
        THEN ok(QDiv(length, I(divisions)), QDiv(length, I(divisions)))
        ELSE IF QIsZero(QSub(I(divisions), tabs)) THEN fail
        ELSE ok(QDiv(QSub(length, QMul(tabs, self.nomTab)), QSub(I(divisions), tabs)),
                self.nomTab)

\* the M point, the line start and the offsets the two symmetry styles use
SideStart(self, a) ==
    LET t == self.thickness
        notDirX == IF a.dirX # 0 THEN 0 ELSE 1
        notDirY == IF a.dirY # 0 THEN 0 ELSE 1
        px == QAdd(a.rootX, QS(a.startOffsetX, t))
        py == QAdd(a.rootY, QS(a.startOffsetY, t))
    IN  IF self.tabSymmetry = 1
        THEN [mx |-> IF a.dirX # 0 /\ a.prevTab # 0 THEN a.rootX ELSE px,
              my |-> IF a.dirY # 0 /\ a.prevTab # 0 THEN a.rootY ELSE py,
              vx |-> QAdd(a.rootX,
                          QS(IF a.startOffsetX # 0 THEN a.startOffsetX ELSE a.dirX, t)),
              vy |-> QAdd(a.rootY,
                          QS(IF a.startOffsetY # 0 THEN a.startOffsetY ELSE a.dirY, t)),
              endOffsetX |-> IF notDirX = 1 /\ ~QIsZero(a.tabVec) THEN 0 ELSE a.endOffsetX,
              endOffsetY |-> IF notDirY = 1 /\ ~QIsZero(a.tabVec) THEN 0 ELSE a.endOffsetY,
              dividerEdgeOffsetX |-> QS(a.dirX, t),
              dividerEdgeOffsetY |-> t]
        ELSE [mx |-> px, my |-> py,
              vx |-> IF notDirY = 1 THEN a.rootX ELSE px,
              vy |-> IF notDirX = 1 THEN a.rootY ELSE py,
              endOffsetX |-> a.endOffsetX,
              endOffsetY |-> a.endOffsetY,
              dividerEdgeOffsetX |-> QS(a.dirY, t),
              dividerEdgeOffsetY |-> QS(a.dirX, t)]

\* a closed rectangle: M p, L p+l, L p+l+v, L p+v, L p
HoleRect(x, y, lx, ly, vx, vy) ==
    <<Pt(x, y),
      Pt(QAdd(x, lx), QAdd(y, ly)),
      Pt(QAdd(QAdd(x, lx), vx), QAdd(QAdd(y, ly), vy)),
      Pt(QAdd(x, vx), QAdd(y, vy)),
      Pt(x, y)>>

dimple_str(self, tabVector, vectorX, vectorY, dirX, dirY, dirxN, diryN, ddir0, isTab) ==
    LET ddir == IF isTab = 0 THEN -ddir0 ELSE ddir0
        h == self.dimpleHeight
        l == self.dimpleLength
        up == QGt(tabVector, I(0))
        dimpleStart == IF up THEN QSub(QDiv(QSub(tabVector, l), I(2)), h)
                       ELSE QAdd(QDiv(QAdd(tabVector, l), I(2)), h)
        tabSgn == IF up THEN 1 ELSE -1
        x1 == QAdd(vectorX, QS(dirxN, dimpleStart))
        y1 == QAdd(vectorY, QS(diryN, dimpleStart))
        x2 == QAdd(x1, QS(tabSgn * dirxN - ddir * dirX, h))
        y2 == QAdd(y1, QS(tabSgn * diryN - ddir * dirY, h))
        x3 == QAdd(x2, QS(tabSgn * dirxN, l))
        y3 == QAdd(y2, QS(tabSgn * diryN, l))
        x4 == QAdd(x3, QS(tabSgn * dirxN + ddir * dirX, h))
        y4 == QAdd(y3, QS(tabSgn * diryN + ddir * dirY, h))
    IN  IF QGt(h, I(0)) /\ ~QIsZero(tabVector)
        THEN <<Pt(x1, y1), Pt(x2, y2), Pt(x3, y3), Pt(x4, y4)>>
        ELSE << >>

\* one pass of "for tabDivision in range(1, int(divisions))" draws the holes
\* that key the dividers into a wall, the slots of a divider, and the next
\* gap or tab of the line.  c is the call's arguments with notDirX, notDirY,
\* notTab, the widths and the divider edge offsets added; st is the walk so
\* far.

\* <<holeLenX, holeLenY>>
HoleLen(self, c, st, tabDivision) ==
    LET w0 == IF c.isTab # 0 THEN c.gapWidth ELSE c.tabWidth
        w == IF tabDivision = 1 /\ self.tabSymmetry = 0
             THEN QSub(w0, QS(c.startOffsetX, self.thickness))
             ELSE w0
    IN  <<QSum(<<QS(c.dirX, w), QS(c.notDirX, st.firstVec), QS(c.dirX, st.first)>>),
          QSum(<<QS(c.dirY, w), QS(c.notDirY, st.firstVec), QS(c.dirY, st.first)>>)>>

\* if ((tabDivision % 2) ^ (not isTab)) and numDividers > 0 and not isDivider
DrawsHoles(c, tabDivision) ==
    (tabDivision % 2) # c.notTab /\ c.numDividers > 0 /\ c.isDivider = 0

\* the hole of one divider in a wall
DividerHole(self, c, st, tabDivision, holeLen, pos) ==
    get_line_path(self,
        HoleRect(QSum(<<st.vx, QS(-c.dirY, pos), QS(c.notDirX, self.halfkerf),
                        QS(c.dirX * self.dogbone, self.halfkerf),
                        QNeg(QS(self.dogbone * c.dirX, st.first)),
                        IF tabDivision = 1 /\ self.tabSymmetry = 0
                        THEN QS(c.startOffsetX, self.thickness) ELSE I(0)>>),
                 QSum(<<st.vy, QS(c.dirX, pos), QNeg(QS(c.notDirY, self.halfkerf)),
                        QS(c.dirY * self.dogbone, self.halfkerf),
                        QNeg(QS(self.dogbone * c.dirY, st.first))>>),
                 holeLen[1], holeLen[2],
                 QS(c.notDirX, QSub(st.secondVec, self.kerf)),
                 QS(c.notDirY, QAdd(st.secondVec, self.kerf))))

\* the slot that lets one divider cross another
DividerSlot(self, c, st, halfLength, pos) ==
    get_line_path(self,
        HoleRect(QSum(<<st.vx, QS(-c.dirY, pos), QNeg(c.dividerEdgeOffsetX),
                        QS(c.notDirX, self.halfkerf)>>),
                 QSum(<<st.vy, QS(c.dirX, pos), QNeg(c.dividerEdgeOffsetY),
                        QS(c.notDirY, self.halfkerf)>>),
                 QS(c.dirX, halfLength), QS(c.dirY, halfLength),
                 QS(c.notDirX, QSub(self.thickness, self.kerf)),
                 QS(c.notDirY, QSub(self.thickness, self.kerf))))

\* the hole and slot paths of the pass, in the order they are appended
StepHoles(self, c, st, tabDivision, holeLen) ==
    (IF DrawsHoles(c, tabDivision)
     THEN [n \in 1..c.numDividers |->
              DividerHole(self, c, st, tabDivision, holeLen,
                          get_divider_position(c.dividerSpacing, n))]
     ELSE << >>)
    \o
    (IF tabDivision = 1 /\ c.numDividers > 0 /\ c.isDivider # 0
     THEN [n \in 1..c.numDividers |->
              DividerSlot(self, c, st, QAdd(st.first, QDiv(c.length, I(2))),
                          get_divider_position(c.dividerSpacing, n))]
     ELSE << >>)

\* the pen after the gap (odd tabDivision) or the tab (even) is drawn
Advance(self, c, st, tabDivision) ==
    LET \* (isTab & dogbone & 1 ^ 0x1)
        coef == IF c.isTab # 0 /\ self.dogbone # 0 THEN 0 ELSE 1
        adv == IF tabDivision % 2 = 1
               THEN QSum(<<c.gapWidth, QS(coef, st.first),
                           QS(self.dogbone * c.isTab, self.kerf)>>)
               ELSE QAdd(c.tabWidth, QS(self.dogbone * c.notTab, self.kerf))
    IN  Pt(QSum(<<st.vx, QS(c.dirX, adv), QS(c.notDirX, st.firstVec)>>),
           QSum(<<st.vy, QS(c.dirY, adv), QS(c.notDirY, st.firstVec)>>))

\* the half-kerf relief move of a dogbone corner: p when there is none
Relief(self, c, p, on) ==
    IF on THEN Pt(QSub(p[1], QS(c.dirX, self.halfkerf)), QSub(p[2], QS(c.dirY, self.halfkerf)))
    ELSE p

\* the relief after the gap or tab, and the one after the edge of the tab
FirstRelief(self, c, tabDivision) ==
    self.dogbone # 0 /\ (IF tabDivision % 2 = 1 THEN c.isTab # 0 ELSE c.notTab # 0)

SecondRelief(self, c, tabDivision) ==
    self.dogbone # 0 /\ (IF tabDivision % 2 = 1 THEN c.notTab # 0 ELSE c.isTab # 0)

\* the edge of the tab: the pen moves by secondVec across the line
Turn(c, st, p) ==
    Pt(QAdd(p[1], QS(c.notDirX, st.secondVec)), QAdd(p[2], QS(c.notDirY, st.secondVec)))

\* the points the pass adds to the line; the last one is where the pen ends
StepPoints(self, c, st, tabDivision, p1, p1b, p2, p2b) ==
    <<p1>>
    \o (IF FirstRelief(self, c, tabDivision) THEN <<p1b>> ELSE << >>)
    \o dimple_str(self, st.secondVec, p1b[1], p1b[2], c.dirX, c.dirY,
                  c.notDirX, c.notDirY, IF tabDivision % 2 = 1 THEN 1 ELSE -1, c.isTab)
    \o <<p2>>
    \o (IF SecondRelief(self, c, tabDivision) THEN <<p2b>> ELSE << >>)

StepFrom2(self, c, st, tabDivision, p1, p1b, p2) ==
    StepPoints(self, c, st, tabDivision, p1, p1b, p2,
               Relief(self, c, p2, SecondRelief(self, c, tabDivision)))

StepFrom1(self, c, st, tabDivision, p1, p1b) ==
    StepFrom2(self, c, st, tabDivision, p1, p1b, Turn(c, st, p1b))

StepFrom(self, c, st, tabDivision, p1) ==
    StepFrom1(self, c, st, tabDivision, p1,
              Relief(self, c, p1, FirstRelief(self, c, tabDivision)))

\* the walk after the pass
StepResult(c, st, tabDivision, holeLen, holes, pts) ==
    [vx |-> pts[Len(pts)][1], vy |-> pts[Len(pts)][2],
     s |-> st.s \o pts,
     h |-> st.h \o holes,
     firstVec |-> QNeg(st.firstVec),
     secondVec |-> QNeg(st.secondVec),
     first |-> I(0),
     firstholelenX |-> IF DrawsHoles(c, tabDivision) /\ ~QIsZero(st.first)
                       THEN holeLen[1] ELSE st.firstholelenX,
     firstholelenY |-> IF DrawsHoles(c, tabDivision) /\ ~QIsZero(st.first)
                       THEN holeLen[2] ELSE st.firstholelenY]

StepWith(self, c, st, tabDivision, holeLen) ==
    StepResult(c, st, tabDivision, holeLen,
               StepHoles(self, c, st, tabDivision, holeLen),
               StepFrom(self, c, st, tabDivision, Advance(self, c, st, tabDivision)))

SideStep(self, c, st, tabDivision) ==
    StepWith(self, c, st, tabDivision, HoleLen(self, c, st, tabDivision))

RECURSIVE SideLoop(_, _, _, _, _)
SideLoop(self, c, st, tabDivision, divisions) ==
    IF tabDivision >= divisions THEN st
    ELSE SideLoop(self, c, SideStep(self, c, st, tabDivision), tabDivision + 1, divisions)

\* the call's arguments and what the walk reads besides them
SideContext(a, w, s0) ==
    SetAttrs(a, [notDirX |-> IF a.dirX # 0 THEN 0 ELSE 1,
                 notDirY |-> IF a.dirY # 0 THEN 0 ELSE 1,
                 notTab |-> IF a.isTab # 0 THEN 0 ELSE 1,
                 gapWidth |-> w.gapWidth, tabWidth |-> w.tabWidth,
                 endOffsetX |-> s0.endOffsetX, endOffsetY |-> s0.endOffsetY,
                 dividerEdgeOffsetX |-> s0.dividerEdgeOffsetX,
                 dividerEdgeOffsetY |-> s0.dividerEdgeOffsetY])

\* the walk before the first pass
WalkStart(self, a, s0) ==
    [vx |-> s0.vx, vy |-> s0.vy,
     s |-> <<Pt(s0.mx, s0.my)>>, h |-> << >>,
     firstVec |-> I(0), secondVec |-> a.tabVec,
     first |-> IF a.isTab # 0 THEN self.halfkerf ELSE QNeg(self.halfkerf),
     firstholelenX |-> I(0), firstholelenY |-> I(0)]

\* the last hole of one divider in a wall, drawn after the line is finished
LastHole(self, c, st, pos) ==
    get_line_path(self,
        HoleRect(QSum(<<st.vx, QS(-c.dirY, pos), QS(c.notDirX, self.halfkerf),
                        QS(c.dirX * self.dogbone, self.halfkerf),
                        QNeg(QS(self.dogbone * c.dirX, st.first))>>),
                 QSum(<<st.vy, QS(c.dirX, pos), QNeg(c.dividerEdgeOffsetY),
                        QS(c.notDirY, self.halfkerf)>>),
                 st.firstholelenX, st.firstholelenY,
                 QS(c.notDirX, QSub(self.thickness, self.kerf)),
                 QS(c.notDirY, QSub(self.thickness, self.kerf))))

SideEndAlongEdge(self, c) ==
    Pt(QAdd(c.rootX, QS(c.dirX, c.length)), QAdd(c.rootY, QS(c.dirY, c.length)))

\* the point that finishes the line off: root + endOffset * thickness + dir * length
SideEnd(self, c) ==
    Pt(QSum(<<c.rootX, QS(c.endOffsetX, self.thickness), QS(c.dirX, c.length)>>),
       QSum(<<c.rootY, QS(c.endOffsetY, self.thickness), QS(c.dirY, c.length)>>))

\* the paths side() appends: holes and slots as the line is walked, then the
\* last holes, then the line itself, finished at the far corner
SidePaths(self, c, st) ==
    st.h
    \o (IF /\ c.isTab # 0 /\ c.numDividers > 0
           /\ self.tabSymmetry = 0 /\ c.isDivider = 0
        THEN [n \in 1..c.numDividers |->
                 LastHole(self, c, st, get_divider_position(c.dividerSpacing, n))]
        ELSE << >>)
    \o <<get_line_path(self, Append(st.s, SideEnd(self, c)))>>

SideWalk(self, c, st0, divisions) ==
    SidePaths(self, c, SideLoop(self, c, st0, 1, divisions))

\* side() once the division count and the widths are known: it raises where
\* the widths divide by zero, before it has appended any path
SideWith(self, a, divisions, w, s0) ==
    IF w.exc # NoError
    THEN [exc |-> w.exc, divisions |-> divisions, length |-> a.length, paths |-> << >>]
    ELSE [exc |-> NoError, divisions |-> divisions, length |-> a.length,
          paths |-> SideWalk(self, SideContext(a, w, s0), WalkStart(self, a, s0), divisions)]

side(self, a) ==
    SideWith(self, a, Divisions(self, a.length), SideWidths(self, a.length, a.isTab),
             SideStart(self, a))

(***************************************************************************)
(* boxmaker_core.py: generate_box, the tab bits and the layout             *)
(*   A 4-bit word is held as an integer 0..15; a bit as 1, 2, 4 or 8.      *)
(***************************************************************************)
BitOf(n, bit) == (n \div bit) % 2
ClearBit(n, bit) == IF BitOf(n, bit) = 1 THEN n - bit ELSE n
SetBit(n, bit) == IF BitOf(n, bit) = 1 THEN n ELSE n + bit

\* a face's pair (tabbed, tabInfo) with one neighbour taken away
fixTabBits(self, face, bit) ==
    [tabbed |-> ClearBit(face.tabbed, bit),
     info |-> IF self.inside THEN SetBit(face.info, bit) ELSE ClearBit(face.info, bit)]

InitialTabBitsAlike(self) ==
    LET f(i) == [tabbed |-> 15, info |-> i]
    IN  [tp |-> f(15), bm |-> f(15), lt |-> f(15), rt |-> f(15), ft |-> f(15), bk |-> f(15)]

\* where the tabs go for the tab style, every face fully tabbed
InitialTabBits(self) ==
    LET f(i) == [tabbed |-> 15, info |-> i]
    IN  IF self.tabSymmetry = 2
        THEN [tp |-> f(6), bm |-> f(12), lt |-> f(12), rt |-> f(6), ft |-> f(12), bk |-> f(9)]
        ELSE IF self.tabSymmetry = 1
        THEN [tp |-> f(15), bm |-> f(15), lt |-> f(15), rt |-> f(15), ft |-> f(15), bk |-> f(15)]
        ELSE [tp |-> f(0), bm |-> f(0), lt |-> f(15), rt |-> f(15), ft |-> f(10), bk |-> f(10)]

Gone(face) == [face EXCEPT !.tabbed = 0]

\* a side of the box that does not exist takes a neighbour away from the four
\* faces around it and is not tabbed itself
WithoutTop(self, t, has_top) ==
    IF has_top THEN t
    ELSE [t EXCEPT !.bk = fixTabBits(self, @, 2), !.ft = fixTabBits(self, @, 8),
                   !.lt = fixTabBits(self, @, 1), !.rt = fixTabBits(self, @, 4),
                   !.tp = Gone(@)]

WithoutBottom(self, t, has_bottom) ==
    IF has_bottom THEN t
    ELSE [t EXCEPT !.bk = fixTabBits(self, @, 8), !.ft = fixTabBits(self, @, 2),
                   !.lt = fixTabBits(self, @, 4), !.rt = fixTabBits(self, @, 1),
                   !.bm = Gone(@)]

WithoutFront(self, t, has_front) ==
    IF has_front THEN t
    ELSE [t EXCEPT !.tp = fixTabBits(self, @, 8), !.bm = fixTabBits(self, @, 8),
                   !.lt = fixTabBits(self, @, 8), !.rt = fixTabBits(self, @, 8),
                   !.ft = Gone(@)]

WithoutBack(self, t, has_back) ==
    IF has_back THEN t
    ELSE [t EXCEPT !.tp = fixTabBits(self, @, 2), !.bm = fixTabBits(self, @, 2),
                   !.lt = fixTabBits(self, @, 2), !.rt = fixTabBits(self, @, 2),
                   !.bk = Gone(@)]

WithoutLeft(self, t, has_left) ==
    IF has_left THEN t
    ELSE [t EXCEPT !.tp = fixTabBits(self, @, 4), !.bm = fixTabBits(self, @, 1),
                   !.bk = fixTabBits(self, @, 1), !.ft = fixTabBits(self, @, 1),
                   !.lt = Gone(@)]

WithoutRight(self, t, has_right) ==
    IF has_right THEN t
    ELSE [t EXCEPT !.tp = fixTabBits(self, @, 1), !.bm = fixTabBits(self, @, 4),
                   !.bk = fixTabBits(self, @, 4), !.ft = fixTabBits(self, @, 4),
                   !.rt = Gone(@)]

TabBitsFor(self, w) ==
    WithoutRight(self,
      WithoutLeft(self,
        WithoutBack(self,
          WithoutFront(self,
            WithoutBottom(self,
              WithoutTop(self, InitialTabBits(self), w.has_top),
              w.has_bottom),
            w.has_front),
          w.has_back),
        w.has_left),
      w.has_right)

\* the tab bits after the sides of the box that do not exist are removed
TabBits(self) == TabBitsFor(self, get_wall_configuration(self.boxtype))

\* entries after index start (0-based) move up one slot
reduceOffsets(aa, start, dx, dy, dz) ==
    [ix \in 1..Len(aa) |->
        IF ix >= start + 2
        THEN <<aa[ix][1] - 1, aa[ix][2] - dx, aa[ix][3] - dy, aa[ix][4] - dz>>
        ELSE aa[ix]]

ReduceIf(cond, aa, start, dx, dy, dz) ==
    IF cond THEN reduceOffsets(aa, start, dx, dy, dz) ELSE aa

\* one entry of pieces; wall names the wall whose tab variables it carries
Piece(wall, col, row, dx, dy, face, faceType) ==
    [wall |-> wall, col |-> col, row |-> row, dx |-> dx, dy |-> dy,
     tabInfo |-> face.info, tabbed |-> face.tabbed, face |-> faceType]

PieceAlways(cond, piece) == <<piece>>

\* if has<Wall>: pieces.append(piece)
PieceIf(cond, piece) == IF cond THEN <<piece>> ELSE << >>

\* the row and column offsets (xs, xx, xy, xz) of the three layout styles,
\* moved up where a side of the box does not exist
DiagramRows(w) ==
    ReduceIf(~w.has_front, << <<1, 0, 0, 0>>, <<2, 0, 0, 1>>, <<3, 0, 1, 1>> >>, 0, 0, 0, 1)

DiagramCols(w) ==
    ReduceIf(~w.has_right,
      ReduceIf(~w.has_left,
               << <<1, 0, 0, 0>>, <<2, 0, 0, 1>>, <<3, 1, 0, 1>>, <<4, 1, 0, 2>> >>,
               0, 0, 0, 1),
      2, 0, 0, 1)

ThreePieceRows == << <<1, 0, 0, 0>>, <<2, 0, 1, 0>> >>

ThreePieceCols == << <<1, 0, 0, 0>>, <<2, 0, 0, 1>> >>

InlineRows == << <<1, 0, 0, 0>> >>

InlineCols(w) ==
    ReduceIf(~w.has_back,
      ReduceIf(~w.has_right,
        ReduceIf(~w.has_left,
          ReduceIf(~w.has_bottom,
            ReduceIf(~w.has_top,
                     << <<1, 0, 0, 0>>, <<2, 1, 0, 0>>, <<3, 2, 0, 0>>,
                        <<4, 2, 0, 1>>, <<5, 2, 0, 2>>, <<6, 3, 0, 2>> >>,
                     0, 1, 0, 0),
            1, 1, 0, 0),
          2, 0, 0, 1),
        3, 0, 0, 1),
      4, 1, 0, 0)

DiagramPieces(X, Y, Z, w, t, rr, cc) ==
    PieceIf(w.has_back, Piece("back", cc[2], rr[3], X, Z, t.bk, 2))
    \o PieceIf(w.has_left, Piece("left", cc[1], rr[2], Z, Y, t.lt, 3))
    \o PieceIf(w.has_bottom, Piece("bottom", cc[2], rr[2], X, Y, t.bm, 1))
    \o PieceIf(w.has_right, Piece("right", cc[3], rr[2], Z, Y, t.rt, 3))
    \o PieceIf(w.has_top, Piece("top", cc[4], rr[2], X, Y, t.tp, 1))
    \o PieceIf(w.has_front, Piece("front", cc[2], rr[1], X, Z, t.ft, 2))

ThreePiecePieces(X, Y, Z, w, t, rr, cc) ==
    PieceIf(w.has_back, Piece("back", cc[2], rr[2], X, Z, t.bk, 2))
    \o PieceIf(w.has_left, Piece("left", cc[1], rr[1], Z, Y, t.lt, 3))
    \o PieceIf(w.has_bottom, Piece("bottom", cc[2], rr[1], X, Y, t.bm, 1))

InlinePieces(X, Y, Z, w, t, rr, cc) ==
    PieceIf(w.has_back, Piece("back", cc[5], rr[1], X, Z, t.bk, 2))
    \o PieceIf(w.has_left, Piece("left", cc[3], rr[1], Z, Y, t.lt, 3))
    \o PieceIf(w.has_top, Piece("top", cc[1], rr[1], X, Y, t.tp, 1))
    \o PieceIf(w.has_bottom, Piece("bottom", cc[2], rr[1], X, Y, t.bm, 1))
    \o PieceIf(w.has_right, Piece("right", cc[4], rr[1], Z, Y, t.rt, 3))
    \o PieceIf(w.has_front, Piece("front", cc[6], rr[1], X, Z, t.ft, 2))

PiecesFor(self, X, Y, Z, w, t) ==
    IF self.style = 1 THEN DiagramPieces(X, Y, Z, w, t, DiagramRows(w), DiagramCols(w))
    ELSE IF self.style = 2 THEN ThreePiecePieces(X, Y, Z, w, t, ThreePieceRows, ThreePieceCols)
    ELSE IF self.style = 3 THEN InlinePieces(X, Y, Z, w, t, InlineRows, InlineCols(w))
    ELSE << >>

\* the pieces of the layout style, in the order they are drawn
Pieces(self, X, Y, Z) ==
    PiecesFor(self, X, Y, Z, get_wall_configuration(self.boxtype), TabBits(self))

\* xs * spacing + xx * X + xy * Y + xz * Z
LayoutOffset(self, pos, X, Y, Z) ==
    QSum(<<QS(pos[1], self.spacing), QS(pos[2], X), QS(pos[3], Y), QS(pos[4], Z)>>)

\* piece_names[min(idx, len(piece_names) - 1)], idx counted from 1 here
PieceNameAt(idx) ==
    <<"bottom", "left", "front", "right", "back", "top">>[IF idx < 6 THEN idx ELSE 6]

\* piece_size = (original - (num_pieces - 1) * overlap) / num_pieces
SplitPieceSize(whole, n, overlap) == QDiv(QSub(whole, QS(n - 1, overlap)), I(n))

\* i * piece_size, less i * overlap after the first part
SplitPieceOffset(i, size, overlap) ==
    QSub(QS(i, size), IF i > 0 THEN QS(i, overlap) ELSE I(0))

\* piece_size, grown by the overlap on each side that meets another part
SplitPieceGrown(i, n, size, overlap) ==
    QSum(<<size, IF i > 0 THEN overlap ELSE I(0), IF i < n - 1 THEN overlap ELSE I(0)>>)

HorizontalParts(x, y, dx, dy, n, overlap, size) ==
    [k \in 1..n |->
        [x |-> x, y |-> QAdd(y, SplitPieceOffset(k - 1, size, overlap)),
         dx |-> dx, dy |-> SplitPieceGrown(k - 1, n, size, overlap)]]

VerticalParts(x, y, dx, dy, n, overlap, size) ==
    [k \in 1..n |->
        [x |-> QAdd(x, SplitPieceOffset(k - 1, size, overlap)), y |-> y,
         dx |-> SplitPieceGrown(k - 1, n, size, overlap), dy |-> dy]]

SplitParts(info, x, y, dx, dy) ==
    IF info.split_direction = "horizontal"
    THEN HorizontalParts(x, y, dx, dy, info.num_pieces, info.overlap,
                         SplitPieceSize(dy, info.num_pieces, info.overlap))
    ELSE VerticalParts(x, y, dx, dy, info.num_pieces, info.overlap,
                       SplitPieceSize(dx, info.num_pieces, info.overlap))

\* the rendered rectangles <<x, y, dx, dy>> of one piece: the piece itself, or
\* its num_pieces parts along the split direction of its split plan
generate_split_pieces(design, original_x, original_y, original_dx, original_dy, piece_name) ==
    IF piece_name \notin DOMAIN design.split_info
    THEN <<[x |-> original_x, y |-> original_y, dx |-> original_dx, dy |-> original_dy]>>
    ELSE SplitParts(design.split_info[piece_name],
                    original_x, original_y, original_dx, original_dy)

PositionWithoutKerf(v, halfkerf) == v

\* kerf_compensated_x = x - self.halfkerf
KerfCompensatedPosition(v, halfkerf) == QSub(v, halfkerf)

\* the arguments of one call of side()
SideArgs(root, startOffset, endOffset, tabVec, prevTab, length, direction, isTab, isDivider, numDividers, dividerSpacing) ==
    [rootX |-> root[1], rootY |-> root[2],
     startOffsetX |-> startOffset[1], startOffsetY |-> startOffset[2],
     endOffsetX |-> endOffset[1], endOffsetY |-> endOffset[2],
     tabVec |-> tabVec, prevTab |-> prevTab, length |-> length,
     dirX |-> direction[1], dirY |-> direction[2],
     isTab |-> isTab, isDivider |-> isDivider,
     numDividers |-> numDividers, dividerSpacing |-> dividerSpacing]

\* the four calls of side() that draw one rectangle.  bits = <<a, b, c, d>>,
\* tabbed = <<atabs, btabs, ctabs, dtabs>>, tabVecs = the four tab vectors,
\* nd and sp = numDividers and dividerSpacing of the four calls
FourSides(x, y, dx, dy, bits, tabbed, tabVecs, isDivider, nd, sp) ==
    LET a == bits[1]
        b == bits[2]
        c == bits[3]
        d == bits[4]
        x2 == QAdd(x, dx)
        y2 == QAdd(y, dy)
    IN  <<SideArgs(<<x, y>>, <<d, a>>, <<-b, a>>, tabVecs[1], tabbed[4], dx,
                   <<1, 0>>, a, isDivider, nd[1], sp[1]),
          SideArgs(<<x2, y>>, <<-b, a>>, <<-b, -c>>, tabVecs[2], tabbed[1], dy,
                   <<0, 1>>, b, isDivider, nd[2], sp[2]),
          SideArgs(<<x2, y2>>, <<-b, -c>>, <<d, -c>>, tabVecs[3], tabbed[2], dx,
                   <<-1, 0>>, c, isDivider, nd[3], sp[3]),
          SideArgs(<<x, y2>>, <<d, -c>>, <<d, a>>, tabVecs[4], tabbed[3], dy,
                   <<0, -1>>, d, isDivider, nd[4], sp[4])>>

\* atabs * (-t if a else t), btabs * (t if b else -t), ctabs * (t if c else -t),
\* dtabs * (-t if d else t), each times its factor
TabVecs(self, bits, tabbed, factor) ==
    LET t == self.thickness
    IN  <<QS(factor[1] * tabbed[1], IF bits[1] # 0 THEN QNeg(t) ELSE t),
          QS(factor[2] * tabbed[2], IF bits[2] # 0 THEN t ELSE QNeg(t)),
          QS(factor[3] * tabbed[3], IF bits[3] # 0 THEN t ELSE QNeg(t)),
          QS(factor[4] * tabbed[4], IF bits[4] # 0 THEN QNeg(t) ELSE t)>>

PieceBits(piece) ==
    <<BitOf(piece.tabInfo, 8), BitOf(piece.tabInfo, 4),
      BitOf(piece.tabInfo, 2), BitOf(piece.tabInfo, 1)>>

PieceTabbed(piece) ==
    <<BitOf(piece.tabbed, 8), BitOf(piece.tabbed, 4),
      BitOf(piece.tabbed, 2), BitOf(piece.tabbed, 1)>>

BitOr(p, q) == IF p # 0 \/ q # 0 THEN 1 ELSE 0

\* ss[lo] \o ... \o ss[hi]
RECURSIVE FlattenRange(_, _, _)
FlattenRange(ss, lo, hi) ==
    IF lo > hi THEN << >>
    ELSE IF lo = hi THEN ss[lo]
    ELSE LET mid == (lo + hi) \div 2
         IN  FlattenRange(ss, lo, mid) \o FlattenRange(ss, mid + 1, hi)

Flatten(ss) == FlattenRange(ss, 1, Len(ss))

\* the rectangles one piece is rendered as, kerf compensated
PieceRectangles(self, X, Y, Z, piece, idx) ==
    generate_split_pieces(self.design,
        KerfCompensatedPosition(LayoutOffset(self, piece.col, X, Y, Z), self.halfkerf),
        KerfCompensatedPosition(LayoutOffset(self, piece.row, X, Y, Z), self.halfkerf),
        QAdd(piece.dx, self.kerf), QAdd(piece.dy, self.kerf),
        PieceNameAt(idx))

\* xholes = 1 if faceType < 3 else 0; yholes = 1 if faceType != 2 else 0
XHoles(piece) == IF piece.face < 3 THEN 1 ELSE 0

YHoles(piece) == IF piece.face # 2 THEN 1 ELSE 0

\* a wall is keyed when keydivwalls is set, a floor when keydivfloor is
Keyed(self, piece) ==
    BitOr(self.keydivfloor, IF piece.face > 1 THEN 1 ELSE 0)
    * BitOr(self.keydivwalls, IF piece.face = 1 THEN 1 ELSE 0)

\* numDividers of the four calls of side() of a panel
PanelDividers(self, tabbed, ykey, xkey) ==
    <<ykey * tabbed[1], xkey * tabbed[2],
      IF tabbed[1] # 0 THEN 0 ELSE ykey * tabbed[3],
      IF tabbed[2] # 0 THEN 0 ELSE xkey * tabbed[4]>>

\* dividerSpacing of the four calls of side() of a panel
PanelSpacings(tabbed, ypos, xpos) ==
    <<ypos, xpos,
      IF tabbed[1] # 0 THEN << >> ELSE ypos,
      IF tabbed[2] # 0 THEN << >> ELSE xpos>>

PanelSidesOf(bits, tabbed, tabVecs, nd, sp, rects) ==
    Flatten([k \in 1..Len(rects) |->
                FourSides(rects[k].x, rects[k].y, rects[k].dx, rects[k].dy,
                          bits, tabbed, tabVecs, 0, nd, sp)])

PanelSidesWith(self, piece, bits, tabbed, rects) ==
    PanelSidesOf(bits, tabbed, TabVecs(self, bits, tabbed, <<1, 1, 1, 1>>),
                 PanelDividers(self, tabbed,
                               Keyed(self, piece) * self.divx * YHoles(piece),
                               Keyed(self, piece) * self.divy * XHoles(piece)),
                 PanelSpacings(tabbed, self.design.length_dividers.positions,
                               self.design.width_dividers.positions),
                 rects)

\* the calls of side() for the outline of one piece (all its split parts)
PanelSides(self, X, Y, Z, piece, idx) ==
    PanelSidesWith(self, piece, PieceBits(piece), PieceTabbed(piece),
                   PieceRectangles(self, X, Y, Z, piece, idx))

\* a, b, c, d of the dividers along the length: 1 where the divider is not keyed
DividerBits(self, bits) ==
    <<IF self.keydivfloor = 0 THEN 1 ELSE bits[1], IF self.keydivwalls = 0 THEN 1 ELSE bits[2],
      IF self.keydivfloor = 0 THEN 1 ELSE bits[3], IF self.keydivwalls = 0 THEN 1 ELSE bits[4]>>

DividerTabbed(self, tabbed) ==
    <<IF self.keydivfloor = 0 THEN 0 ELSE tabbed[1], IF self.keydivwalls = 0 THEN 0 ELSE tabbed[2],
      IF self.keydivfloor = 0 THEN 0 ELSE tabbed[3], IF self.keydivwalls = 0 THEN 0 ELSE tabbed[4]>>

\* the dividers along the length, drawn after the first piece
LengthDividerSides(self, X, piece, y, bits, tabbed) ==
    Flatten([n \in 1..self.divx |->
        FourSides(QS(n - 1, QAdd(self.spacing, X)), y, piece.dx, piece.dy,
                  bits, tabbed,
                  TabVecs(self, bits, tabbed,
                          <<self.keydivfloor, self.keydivwalls,
                            self.keydivfloor, self.keydivwalls>>),
                  1, <<0, self.divy * XHoles(piece), 0, 0>>,
                  << << >>, self.design.width_dividers.positions, << >>, << >> >>)])

\* the dividers along the width, drawn after the second piece
WidthDividerSides(self, Z, piece, y, bits, tabbed) ==
    Flatten([n \in 1..self.divy |->
        FourSides(QS(n - 1, QAdd(self.spacing, Z)), y, piece.dx, piece.dy,
                  bits, tabbed,
                  TabVecs(self, bits, tabbed,
                          <<self.keydivwalls, self.keydivfloor,
                            self.keydivwalls, self.keydivfloor>>),
                  1, <<self.divx * YHoles(piece), 0, 0, 0>>,
                  <<self.design.length_dividers.positions, << >>, << >>, << >> >>)])

\* the calls of side() for the divider panels, drawn after the first piece
\* (the dividers along the length) and after the second (along the width)
DividerSides(self, X, Y, Z, piece, idx) ==
    IF idx = 1
    THEN LengthDividerSides(self, X, piece,
                            QSum(<<QS(4, self.spacing), Y, QS(2, Z)>>),
                            DividerBits(self, PieceBits(piece)),
                            DividerTabbed(self, PieceTabbed(piece)))
    ELSE IF idx = 2
    THEN WidthDividerSides(self, Z, piece,
                           QSum(<<QS(5, self.spacing), Y, QS(3, Z)>>),
                           PieceBits(piece), PieceTabbed(piece))
    ELSE << >>

SideCallsOf(self, X, Y, Z, pieces) ==
    Flatten([idx \in 1..Len(pieces) |->
                PanelSides(self, X, Y, Z, pieces[idx], idx)
                \o DividerSides(self, X, Y, Z, pieces[idx], idx)])

\* every call of side() of one generate_box, in the order of the piece loop
SideCalls(self, X, Y, Z) == SideCallsOf(self, X, Y, Z, Pieces(self, X, Y, Z))

\* the line side() draws: the last path it appends
EdgeOf(r) == IF r.paths = << >> THEN << >> ELSE r.paths[Len(r.paths)].data

\* the paths side() appends before the line: holes and slots
HolesOf(r) == IF r.paths = << >> THEN 0 ELSE Len(r.paths) - 1

\* a placed panel: its wall, tab words and face type, the root (x, y) of the
\* piece and its size (dx, dy), the rectangles of its parts and the lines of
\* their edges (four for every part), its near corner (the root of the first
\* edge of its first part) and far corner (the root of the third edge of its
\* last part), the points where these two edges start to be drawn, and for
\* every edge the number of paths side() appended before the line itself
PanelCorner(piece, x, y, rects, edges, holes, first, last, parts, start1, start3) ==
    [wall |-> piece.wall, tabInfo |-> piece.tabInfo, tabbed |-> piece.tabbed,
     face |-> piece.face,
     root |-> <<x, y>>, size |-> <<piece.dx, piece.dy>>,
     rects |-> rects, edges |-> edges, holes |-> holes,
     near |-> <<first.x, first.y>>,
     far |-> <<QAdd(last.x, last.dx), QAdd(last.y, last.dy)>>,
     drawnNear |-> Pt(start1.mx, start1.my),
     drawnFar |-> Pt(start3.mx, start3.my),
     parts |-> parts]

PanelCornerOf(self, X, Y, Z, piece, rects, sides) ==
    PanelCorner(piece, LayoutOffset(self, piece.col, X, Y, Z),
                LayoutOffset(self, piece.row, X, Y, Z),
                rects, [k \in 1..Len(sides) |-> EdgeOf(side(self, sides[k]))],
                [k \in 1..Len(sides) |-> HolesOf(side(self, sides[k]))],
                rects[1], rects[Len(rects)], Len(rects),
                SideStart(self, sides[1]), SideStart(self, sides[Len(sides) - 1]))

PanelCornersOf(self, X, Y, Z, pieces) ==
    [idx \in 1..Len(pieces) |->
        PanelCornerOf(self, X, Y, Z, pieces[idx],
                      PieceRectangles(self, X, Y, Z, pieces[idx], idx),
                      PanelSides(self, X, Y, Z, pieces[idx], idx))]

PanelCorners(self, X, Y, Z) == PanelCornersOf(self, X, Y, Z, Pieces(self, X, Y, Z))

\* the divider panels drawn from one list of calls of side(), four calls each
DividerPanelsFrom(self, group, sides) ==
    [n \in 1..(Len(sides) \div 4) |->
        [group |-> group,
         edges |-> [k \in 1..4 |-> EdgeOf(side(self, sides[4 * (n - 1) + k]))]]]

\* the divider panels of one generate_box: group "x_divider" after the first
\* piece, "y_divider" after the second
DividerPanelsOf(self, X, Y, Z, pieces) ==
    Flatten([idx \in 1..Len(pieces) |->
                DividerPanelsFrom(self, IF idx = 1 THEN "x_divider" ELSE "y_divider",
                                  DividerSides(self, X, Y, Z, pieces[idx], idx))])

DividerPanels(self, X, Y, Z) == DividerPanelsOf(self, X, Y, Z, Pieces(self, X, Y, Z))

\* the first call that raises, the last call when none does
LastCall(results, raising) ==
    IF raising = {} THEN Len(results)
    ELSE CHOOSE i \in raising : \A j \in raising : i <= j

RunUpTo(results, stop) ==
    [exc |-> IF stop = 0 THEN NoError ELSE results[stop].exc,
     paths |-> Flatten([i \in 1..stop |-> results[i].paths]),
     divisions |-> [i \in 1..stop |-> results[i].divisions],
     lengths |-> [i \in 1..stop |-> results[i].length]]

RunResults(results) ==
    RunUpTo(results, LastCall(results, {i \in 1..Len(results) : results[i].exc # NoError}))

\* the calls of side() one after the other; the first that raises ends the
\* run with the paths appended so far
RunSides(self, calls) == RunResults([i \in 1..Len(calls) |-> side(self, calls[i])])

\* the keyword arguments generate_box hands to create_box_design
DesignArguments(self) ==
    [length |-> self.length, width |-> self.width, height |-> self.height,
     thickness |-> self.thickness, inside |-> self.inside,
     div_l |-> self.div_l, div_w |-> self.div_w,
     div_l_custom |-> self.div_l_custom, div_w_custom |-> self.div_w_custom,
     box_type |-> self.boxtype, style |-> self.style,
     max_material_width |-> self.max_material_width,
     max_material_height |-> self.max_material_height,
     overlap_multiplier |-> self.overlap_multiplier,
     join_type |-> self.join_type]

KeptPaths(paths) == paths

\* self.paths = []
ClearedPaths(paths) == << >>

\* what generate_box gives when it raises before the piece loop
Raises(e, self) ==
    [exc |-> e, self |-> self, produced |-> 0, divisions |-> << >>,
     lengths |-> << >>, panels |-> << >>, dividers |-> << >>]

\* the generator after "self.paths = []" and the assignments that follow it
Prepared(self, design) ==
    SetAttrs(self,
        [design |-> design,
         paths |-> ClearedPaths(self.paths), circles |-> << >>,
         nomTab |-> self.tab, equalTabs |-> self.equal,
         tabSymmetry |-> self.tabsymmetry,
         dimpleHeight |-> self.dimpleheight, dimpleLength |-> self.dimplelength,
         halfkerf |-> QDiv(self.kerf, I(2)),
         dogbone |-> IF self.tabtype = 1 THEN 1 ELSE 0,
         divx |-> self.div_l, divy |-> self.div_w,
         keydivwalls |-> IF self.keydiv = 3 \/ self.keydiv = 1 THEN 0 ELSE 1,
         keydivfloor |-> IF self.keydiv = 3 \/ self.keydiv = 2 THEN 0 ELSE 1,
         linethickness |-> IF self.hairline # 0 THEN HairlineThickness ELSE I(1)])

\* the piece loop has run: its paths are on self.paths
Generated(self, run, panels, dividers) ==
    [exc |-> run.exc,
     self |-> [self EXCEPT !.paths = @ \o run.paths],
     produced |-> Len(run.paths),
     divisions |-> run.divisions,
     lengths |-> run.lengths,
     panels |-> panels,
     dividers |-> dividers]

\* generate_box from "X = design.length_external" on
GenerateGeometry(self, X, Y, Z) ==
    IF QGt(self.kerf, QDiv(QMin(X, QMin(Y, Z)), I(3))) THEN Raises(ValueError, self)
    ELSE IF QLt(self.spacing, self.kerf) THEN Raises(ValueError, self)
    ELSE Generated(self, RunSides(self, SideCalls(self, X, Y, Z)),
                   PanelCorners(self, X, Y, Z), DividerPanels(self, X, Y, Z))

\* generate_box once create_box_design has answered
GenerateFromDesign(self, r) ==
    IF r.exc # NoError THEN Raises(r.exc, self)
    ELSE GenerateGeometry(Prepared(self, r.design), r.design.length_external,
                          r.design.width_external, r.design.height_external)

GenerateValidated(self, v) ==
    IF v # NoError THEN Raises(v, self)
    ELSE IF self.boxtype \notin BoxType \/ self.style \notin 1..3
    THEN Raises(ValueError, self)
    ELSE GenerateFromDesign(self, create_box_design(DesignArguments(self)))

\* generate_box(): the exception it raises ("none" when it returns), the
\* generator as it leaves it, the number of paths it appended, the division
\* count and the edge length of every call of side() it made, the corners
\* of its panels and its divider panels
generate_box(self) == GenerateValidated(self, validate_dimensions(self))

(***************************************************************************)
(* State                                                                   *)
(*   request, response : one call of create_box_design and what it gave    *)
(*   core   : one BoxMakerCore object                                      *)
(*   last   : the last call made on core and how it ended                  *)
(*   raised : a generate_box call on core has raised                       *)
(*   calls  : the number of calls made on core                             *)
(***************************************************************************)
VARIABLES request, response, core, last, raised, calls

vars == <<request, response, core, last, raised, calls>>

NotCalled == [exc |-> "pending", design |-> NoDesign]

NoCall ==
    [op |-> "none", exc |-> NoError, produced |-> 0,
     divisions |-> << >>, lengths |-> << >>, panels |-> << >>, dividers |-> << >>]

(***************************************************************************)
(* Bounded inputs of create_box_design                                     *)
(***************************************************************************)
MaxDividers == 2

EmptyStr == << >>
CustomLengthStrings ==
    { EmptyStr,
      <<"4","5",";","4","6">>,
      <<"4","5",",","5",";","4","5",".","5">>,
      <<"4","5",";","4","6",";","7">>,
      <<"4","0",";","4","0">>,
      <<"4","5",";","4","9">>,
      <<"4","5",".","0","0","0","5",";","4","6">>,
      <<"4","x">>,
      <<"0",".","0","0","0","4",";","0",".","0","0","0","4">>,
      <<"-","5",";","9","6">>,
      <<" ","6","0"," ">> }
CustomWidthStrings == { EmptyStr, <<"3","0">> }

DesignRequests ==
    [length : {I(9), I(100)}, width : {I(80)}, height : {I(50)},
     thickness : {I(3)}, inside : BOOLEAN,
     div_l : 0..MaxDividers, div_w : 0..1,
     div_l_custom : CustomLengthStrings, div_w_custom : CustomWidthStrings,
     box_type : BoxType, style : {1},
     max_material_width : {I(0), I(9), I(90)},
     max_material_height : {I(0), I(60)},
     overlap_multiplier : {I(3)}, join_type : {0}]

InitDesign ==
    /\ request \in DesignRequests
    /\ response = NotCalled
    /\ core = InitCore
    /\ last = NoCall
    /\ raised = FALSE
    /\ calls = 0

\* design = create_box_design(**request)
CreateBoxDesign ==
    /\ response = NotCalled
    /\ response' = create_box_design(request)
    /\ UNCHANGED <<request, core, last, raised, calls>>

NextDesign == CreateBoxDesign

SpecDesign == InitDesign /\ [][NextDesign]_vars

\* requests whose panels are over the material limits in several ways
SplitRequests ==
    [length : {I(100), I(240)}, width : {I(80)}, height : {I(50)},
     thickness : {I(3), I(10)}, inside : {FALSE},
     div_l : {0}, div_w : {0},
     div_l_custom : {EmptyStr}, div_w_custom : {EmptyStr},
     box_type : {FULL_BOX, NO_TOP}, style : {1},
     max_material_width : {I(0), I(60), I(90)},
     max_material_height : {I(0), I(40), I(60)},
     overlap_multiplier : {Q(1, 2), I(3), I(5), I(8)}, join_type : {0}]

InitSplit ==
    /\ request \in SplitRequests
    /\ response = NotCalled
    /\ core = InitCore
    /\ last = NoCall
    /\ raised = FALSE
    /\ calls = 0

SpecSplit == InitSplit /\ [][NextDesign]_vars

(***************************************************************************)
(* The generator: set_parameters and generate_box called on one object     *)
(***************************************************************************)
MaxCalls == 4

StalePath == [data |-> <<Pt(I(7), I(7))>>, stroke_width |-> I(5)]

\* the keyword arguments of the set_parameters calls
Updates ==
    << [kerf |-> I(0)],
       [kerf |-> I(40)],
       [tab |-> Q(201, 10), div_l |-> 1, keydiv |-> 0],
       [boxtype |-> NO_BOTTOM, height |-> I(11)],
       [equal |-> 1],
       [max_material_width |-> I(60), inside |-> TRUE],
       [tabSymmetry |-> 1, nomTab |-> I(1), halfkerf |-> I(7), dogbone |-> 1,
        paths |-> <<StalePath>>, linethickness |-> I(5)],
       [length |-> I(0)],
       [style |-> 3, tabtype |-> 1, hairline |-> 1, div_w |-> 1] >>

Init ==
    /\ request = DesignArguments(InitCore)
    /\ response = NotCalled
    /\ core = InitCore
    /\ last = NoCall
    /\ raised = FALSE
    /\ calls = 0

\* core.set_parameters(**Updates[i])
SetParameters(i) ==
    /\ calls < MaxCalls
    /\ core' = set_parameters(core, Updates[i])
    /\ last' = [NoCall EXCEPT !.op = "set_parameters"]
    /\ calls' = calls + 1
    /\ UNCHANGED <<request, response, raised>>

\* the generator and the record of the call once generate_box has given r
Generates(r) ==
    /\ core' = r.self
    /\ last' = [op |-> "generate_box", exc |-> r.exc, produced |-> r.produced,
                divisions |-> r.divisions, lengths |-> r.lengths,
                panels |-> r.panels, dividers |-> r.dividers]
    /\ raised' = (raised \/ r.exc # NoError)

\* core.generate_box()
GenerateBox ==
    /\ calls < MaxCalls
    /\ Generates(generate_box(core))
    /\ calls' = calls + 1
    /\ UNCHANGED <<request, response>>

Next ==
    \/ \E i \in 1..Len(Updates) : SetParameters(i)
    \/ GenerateBox

Spec == Init /\ [][Next]_vars

(***************************************************************************)
(* The layouts: generate_box on a generator of every box type and style    *)
(***************************************************************************)
\* without dividers, and with two length dividers (two of the three sizes
\* given) and one width divider
LayoutCores ==
    { set_parameters(InitCore,
          [boxtype |-> b, style |-> s, length |-> I(120), height |-> I(80),
           div_l |-> 2 * d, div_w |-> d,
           div_l_custom |-> <<"3", "0", ";", "4", "0">>]) :
        b \in BoxType, s \in 1..3, d \in 0..1 }

InitLayout ==
    /\ request = DesignArguments(InitCore)
    /\ response = NotCalled
    /\ core \in LayoutCores
    /\ last = NoCall
    /\ raised = FALSE
    /\ calls = 0

NextLayout == GenerateBox

SpecLayout == InitLayout /\ [][NextLayout]_vars

(***************************************************************************)
(* The validation: generate_box on generators with heights, thicknesses    *)
(* and tab widths around the limits of _validate_dimensions                *)
(***************************************************************************)
ValidationHeights == {I(10), I(11), I(18), I(24), I(25), I(40), I(10001)}

ValidationThicknesses == {Q(1, 10), I(3), I(10)}

ValidationTabs == {I(1), Q(9, 2), I(6), I(12), I(14)}

ValidationCores ==
    { set_parameters(InitCore, [boxtype |-> b, length |-> I(40), width |-> I(40),
                                height |-> h, thickness |-> t, tab |-> w]) :
        b \in BoxType, h \in ValidationHeights, t \in ValidationThicknesses,
        w \in ValidationTabs }

InitValidate ==
    /\ request = DesignArguments(InitCore)
    /\ response = NotCalled
    /\ core \in ValidationCores
    /\ last = NoCall
    /\ raised = FALSE
    /\ calls = 0

NextValidate == GenerateBox

SpecValidate == InitValidate /\ [][NextValidate]_vars

(***************************************************************************)
(* The tab symmetries: generate_box on a generator of every box type,      *)
(* symmetry mode and dimension mode                                        *)
(***************************************************************************)
\* tab width and kerf of the generators
SymmetryTabs == { [tab |-> I(25), kerf |-> Q(1, 2)], [tab |-> I(20), kerf |-> I(0)] }

SymmetryCores ==
    { set_parameters(InitCore,
          [boxtype |-> b, tabsymmetry |-> m, inside |-> i,
           length |-> I(100), width |-> I(90), height |-> I(80),
           tab |-> w.tab, kerf |-> w.kerf]) :
        b \in BoxType, m \in 0..2, i \in BOOLEAN, w \in SymmetryTabs }

InitSymmetry ==
    /\ request = DesignArguments(InitCore)
    /\ response = NotCalled
    /\ core \in SymmetryCores
    /\ last = NoCall
    /\ raised = FALSE
    /\ calls = 0

NextSymmetry == GenerateBox

SpecSymmetry == InitSymmetry /\ [][NextSymmetry]_vars

\* generators of boxes whose panels exceed the material: a cube and an oblong
\* box of every box type and layout under width and height limits
SplitPanelSizes ==
    { [length |-> I(240), width |-> I(240), height |-> I(240)],
      [length |-> I(240), width |-> I(90), height |-> I(80)] }

SplitPanelWidths == {I(0), I(90), I(200)}

SplitPanelHeights == {I(0), I(85)}

SplitPanelCores ==
    { set_parameters(InitCore,
          [boxtype |-> b, style |-> s,
           length |-> d.length, width |-> d.width, height |-> d.height,
           tab |-> I(25), kerf |-> I(0),
           max_material_width |-> mw, max_material_height |-> mh]) :
        b \in BoxType, s \in 1..3, d \in SplitPanelSizes,
        mw \in SplitPanelWidths, mh \in SplitPanelHeights }

InitSplitPanels ==
    /\ request = DesignArguments(InitCore)
    /\ response = NotCalled
    /\ core \in SplitPanelCores
    /\ last = NoCall
    /\ raised = FALSE
    /\ calls = 0

NextSplitPanels == GenerateBox

SpecSplitPanels == InitSplitPanels /\ [][NextSplitPanels]_vars

\* generators of divided boxes: every box type, layout and keying mode
DividerCounts == { [div_l |-> 2, div_w |-> 1], [div_l |-> 1, div_w |-> 0] }

\* boxmaker_constants.py: KeyDividerType
WALLS_AND_FLOOR == 0
WALLS_ONLY == 1
FLOOR_ONLY == 2
NONE == 3
KeyDividerType == {WALLS_AND_FLOOR, WALLS_ONLY, FLOOR_ONLY, NONE}

DividerCores ==
    { set_parameters(InitCore,
          [boxtype |-> b, style |-> s, keydiv |-> k,
           length |-> I(120), width |-> I(100), height |-> I(80),
           div_l |-> d.div_l, div_w |-> d.div_w]) :
        b \in BoxType, s \in 1..3, k \in KeyDividerType, d \in DividerCounts }

InitDividers ==
    /\ request = DesignArguments(InitCore)
    /\ response = NotCalled
    /\ core \in DividerCores
    /\ last = NoCall
    /\ raised = FALSE
    /\ calls = 0

NextDividers == GenerateBox

SpecDividers == InitDividers /\ [][NextDividers]_vars

(***************************************************************************)
(* Properties of create_box_design                                         *)
(***************************************************************************)
Returned == response.exc = NoError

SpacingOff(dividers, internal) == QAbs(QSub(QSum(dividers.spacing), internal))

\* C2: in every design create_box_design returns, for every box type and
\* both divider axes, the spacing values sum to the internal length of the
\* axis within 0.001 mm
C2_SpacingSumsToInternal ==
    Returned =>
        /\ QLe(SpacingOff(response.design.length_dividers, response.design.length_internal),
               Tolerance)
        /\ QLe(SpacingOff(response.design.width_dividers, response.design.width_internal),
               Tolerance)

\* a returned design with a divider whose spacing sum is off by a non-zero
\* amount inside the tolerance
C2_Witness ==
    /\ Returned
    /\ response.design.length_dividers.count = 1
    /\ response.design.width_dividers.count = 1
    /\ ~QIsZero(SpacingOff(response.design.length_dividers, response.design.length_internal))

\* the request with its length dividers left out
WithoutLengthDividers(a) == [a EXCEPT !.div_l = 0, !.div_l_custom = EmptyStr]

LengthInternalOf(a) ==
    LET w == get_wall_configuration(a.box_type)
    IN  InternalOf(a.inside, a.length, WallThickness(a.thickness, w.has_left, w.has_right))

\* the length axis is fully specified: N >= 1 dividers, at least N + 1 sizes
\* that parse, in a request that is accepted without its length dividers
FullySpecifiedLength ==
    /\ response.exc # "pending"
    /\ request.div_l >= 1
    /\ parse_compartment_sizes(request.div_l_custom).exc = NoError
    /\ Len(parse_compartment_sizes(request.div_l_custom).sizes) >= request.div_l + 1
    /\ create_box_design(WithoutLengthDividers(request)).exc = NoError

GivenSizes == parse_compartment_sizes(request.div_l_custom).sizes
FirstSizes == SubSeq(GivenSizes, 1, request.div_l + 1)
AvailableLength == QSub(LengthInternalOf(request), QMul(I(request.div_l), request.thickness))
StrictMismatch == QGt(QAbs(QSub(QSum(FirstSizes), AvailableLength)), Tolerance)

StrictOutcome ==
    IF StrictMismatch THEN response.exc = ValidationError
    ELSE /\ Returned
         /\ response.design.length_dividers.compartment_sizes = FirstSizes

\* C4 as stated: with at least N + 1 sizes for N >= 1 dividers only the first
\* N + 1 are used; a sum off the available space by more than 0.001 mm is a
\* validation error, otherwise the compartments are exactly those values
C4_StrictSizesAsStated == FullySpecifiedLength => StrictOutcome

\* C4 amended: the same, provided the available space is positive; without
\* available space the request is a validation error whatever the sizes
C4_StrictSizes ==
    FullySpecifiedLength =>
        IF QGt(AvailableLength, I(0)) THEN StrictOutcome
        ELSE response.exc = ValidationError

\* more sizes than compartments, the first N + 1 fitting: accepted as given
C4_Witness ==
    /\ FullySpecifiedLength
    /\ Len(GivenSizes) > request.div_l + 1
    /\ Returned
    /\ response.design.length_dividers.compartment_sizes = FirstSizes
    /\ QSum(GivenSizes) # QSum(FirstSizes)

WallCount(a, b) == B2I(a) + B2I(b)

\* C6: on each axis external - internal = thickness * (bounding walls
\* present), the given value being the internal dimension in internal mode
\* and the external one otherwise
C6_WallThicknessContribution ==
    Returned =>
        LET d == response.design
            w == get_wall_configuration(request.box_type)
            given(int, ext) == IF request.inside THEN int ELSE ext
        IN  /\ QSub(d.length_external, d.length_internal)
                 = QMul(request.thickness, I(WallCount(w.has_left, w.has_right)))
            /\ QSub(d.width_external, d.width_internal)
                 = QMul(request.thickness, I(WallCount(w.has_front, w.has_back)))
            /\ QSub(d.height_external, d.height_internal)
                 = QMul(request.thickness, I(WallCount(w.has_bottom, w.has_top)))
            /\ given(d.length_internal, d.length_external) = request.length
            /\ given(d.width_internal, d.width_external) = request.width
            /\ given(d.height_internal, d.height_external) = request.height

\* an internal-mode design with one wall on the length axis, none on the
\* width axis and one on the height axis
C6_Witness ==
    /\ Returned
    /\ request.inside
    /\ request.box_type = NO_LEFT_RIGHT
    /\ QSub(response.design.length_external, response.design.length_internal) = request.thickness
    /\ response.design.width_external = response.design.width_internal

\* the panels that exist and exceed a non-zero limit
ExceedingPanels ==
    LET w == get_wall_configuration(request.box_type)
        d == create_box_design([request EXCEPT !.max_material_width = I(0),
                                               !.max_material_height = I(0)]).design
        over(width, height) ==
            \/ ~QIsZero(request.max_material_width) /\ QGt(width, request.max_material_width)
            \/ ~QIsZero(request.max_material_height) /\ QGt(height, request.max_material_height)
    IN  {n \in PieceNames :
           \/ n = "front" /\ w.has_front /\ over(d.length_external, d.height_external)
           \/ n = "back" /\ w.has_back /\ over(d.length_external, d.height_external)
           \/ n = "left" /\ w.has_left /\ over(d.width_external, d.height_external)
           \/ n = "right" /\ w.has_right /\ over(d.width_external, d.height_external)
           \/ n = "top" /\ w.has_top /\ over(d.length_external, d.width_external)
           \/ n = "bottom" /\ w.has_bottom /\ over(d.length_external, d.width_external)}

\* the request is accepted when its material limits are switched off
AcceptedWithoutLimits ==
    /\ response.exc # "pending"
    /\ create_box_design([request EXCEPT !.max_material_width = I(0),
                                         !.max_material_height = I(0)]).exc = NoError

SplitPlanMatches ==
    IF ExceedingPanels = {} THEN ~response.design.has_split_info
    ELSE /\ response.design.has_split_info
         /\ DOMAIN response.design.split_info = ExceedingPanels

\* C10: for every limit value the split plan has an entry for exactly the
\* existing panels over a non-zero limit, and the design carries no split
\* plan when both limits are 0 or no panel is over a limit
C10_SplitPlanPanels == AcceptedWithoutLimits => (Returned /\ SplitPlanMatches)

\* what does hold: the same of every design that is returned
C10_SplitPlanPanelsWhenReturned == (AcceptedWithoutLimits /\ Returned) => SplitPlanMatches

(***************************************************************************)
(* Properties of the generator                                             *)
(***************************************************************************)
\* the last call on the generator was generate_box and it returned
Succeeded == last.op = "generate_box" /\ last.exc = NoError

\* the last call on the generator was generate_box and it raised
Rejected == last.op = "generate_box" /\ last.exc # NoError

\* C1: when generate_box raises, no path produced by that call has been
\* added to the output list
C1_NoPartialOutput == Rejected => last.produced = 0

\* C3: every edge handed to side() by a configuration that passed the
\* validation has a positive division count
C3_PositiveDivisions == \A i \in 1..Len(last.divisions) : last.divisions[i] > 0

\* C5: every rejection by generate_box is a dimension, material, tab or
\* validation error
C5_TaxonomyOnly == Rejected => last.exc \in TaxonomyErrors

\* the kerf values the generator's kerf is compared with
KerfValues == {I(0), Q(1, 5)}

\* the same generator with another kerf, generated
OtherKerf(k) == generate_box([core EXCEPT !.kerf = k])

\* every panel of g has its near corner, as handed to side() and as drawn, at
\* the near corner of panels moved by -half on each axis, and its far corner
\* moved by +half
Moved(p, dx, dy) == <<QAdd(p[1], dx), QAdd(p[2], dy)>>

ShiftedBy(panels, g, half) ==
    g.exc = NoError =>
        /\ Len(g.panels) = Len(panels)
        /\ \A i \in 1..Len(panels) :
              /\ g.panels[i].near = Moved(panels[i].near, QNeg(half), QNeg(half))
              /\ g.panels[i].far = Moved(panels[i].far, half, half)
              /\ g.panels[i].drawnNear = Moved(panels[i].drawnNear, QNeg(half), QNeg(half))
              /\ g.panels[i].drawnFar = Moved(panels[i].drawnFar, half, half)

SameCount(produced, g) == g.exc = NoError => g.produced = produced

\* C8: the number of generated paths is the same for every accepted kerf
C8_SamePathCount ==
    Succeeded => \A k \in KerfValues : SameCount(last.produced, OtherKerf(k))

\* the attributes __init__ sets before its "Internal state" block
ParameterNames == DOMAIN InitCore \ {"linethickness", "paths", "circles", "design"}

\* BoxMakerCore() given the parameter values of self by set_parameters
FreshGenerator(self) == set_parameters(InitCore, [k \in ParameterNames |-> self[k]])

\* C9: whatever was called on the generator before, the path list of a
\* successful generate_box is the one a fresh generator with the same parameter
\* values gives
C9_HistoryIndependent ==
    Succeeded => core.paths = generate_box(FreshGenerator(core)).self.paths

\* generate_box succeeds, with paths, on a generator on which an earlier
\* generate_box has raised
C9_Witness == Succeeded /\ raised /\ last.produced > 0

(***************************************************************************)
(* Properties of the split plans                                           *)
(***************************************************************************)
\* the panels of the returned design that have a split plan
PlanPanels ==
    IF Returned /\ response.design.has_split_info
    THEN DOMAIN response.design.split_info ELSE {}

PlanOf(n) == response.design.split_info[n]

\* the panel's dimension on the split axis and the material limit on it
PlanDimension(n) ==
    IF PlanOf(n).split_direction = "horizontal"
    THEN get_piece_dimensions(response.design)[n][2]
    ELSE get_piece_dimensions(response.design)[n][1]

PlanLimit(n) ==
    IF PlanOf(n).split_direction = "horizontal"
    THEN request.max_material_height ELSE request.max_material_width

\* the overlap leaves room on the sheet
FeasibleOverlap(n) == QGt(PlanLimit(n), PlanOf(n).overlap)

\* dimension / count >= 0.25 x limit
MeetsFloor(n, count) ==
    QGe(QDiv(PlanDimension(n), I(count)), QMul(Q(1, 4), PlanLimit(n)))

\* the number of pieces that fit the sheet: dimension / (limit - overlap), rounded up
FitCount(n) == QCeil(QDiv(PlanDimension(n), QSub(PlanLimit(n), PlanOf(n).overlap)))

\* the largest count that meets the floor, at least 2
FloorCount(n) ==
    IF QFloor(QDiv(PlanDimension(n), QMul(Q(1, 4), PlanLimit(n)))) > 2
    THEN QFloor(QDiv(PlanDimension(n), QMul(Q(1, 4), PlanLimit(n)))) ELSE 2

\* C11 as stated: the piece count is the smallest integer >= 2 whose nominal
\* piece size is at least 0.25 x the limit
C11_MinimalCountAsStated ==
    \A n \in PlanPanels :
        FeasibleOverlap(n) =>
            /\ PlanOf(n).num_pieces >= 2
            /\ MeetsFloor(n, PlanOf(n).num_pieces)
            /\ \A m \in 2..(PlanOf(n).num_pieces - 1) : ~MeetsFloor(n, m)

\* C11: with a feasible overlap the piece count is the number of pieces that
\* fit the sheet when their nominal size is at least 0.25 x the limit, and
\* otherwise the largest count whose nominal size is, at least 2
C11_PieceCount ==
    \A n \in PlanPanels :
        FeasibleOverlap(n) =>
            PlanOf(n).num_pieces =
                IF MeetsFloor(n, FitCount(n)) THEN FitCount(n) ELSE FloorCount(n)

\* a plan whose count was cut back from the fit count, and one that kept a
\* fit count of 3 or more
C11_Witness ==
    /\ \E n \in PlanPanels :
          FeasibleOverlap(n) /\ ~MeetsFloor(n, FitCount(n)) /\ PlanOf(n).num_pieces > 2
    /\ \E n \in PlanPanels :
          FeasibleOverlap(n) /\ MeetsFloor(n, FitCount(n)) /\ PlanOf(n).num_pieces > 2

\* C12: every split plan has at least 2 pieces and a nominal piece size of at
\* least 25% of the material limit
C12_CountAndFloor ==
    \A n \in PlanPanels :
        PlanOf(n).num_pieces >= 2 /\ MeetsFloor(n, PlanOf(n).num_pieces)

\* a plan whose fit count would have given pieces under the floor
C12_Witness ==
    \E n \in PlanPanels : /\ FeasibleOverlap(n) /\ ~MeetsFloor(n, FitCount(n))
                           /\ PlanOf(n).split_direction = "horizontal"

\* C13: a plan has count - 1 split positions, the k-th at k x (dimension / count)
C13_EvenPositions ==
    \A n \in PlanPanels :
        /\ Len(PlanOf(n).split_positions) = PlanOf(n).num_pieces - 1
        /\ \A k \in 1..Len(PlanOf(n).split_positions) :
              PlanOf(n).split_positions[k]
                  = QMul(I(k), QDiv(PlanDimension(n), I(PlanOf(n).num_pieces)))

LaidOut == last.op = "generate_box" /\ last.exc = NoError

(***************************************************************************)
(* Properties of the size strings                                          *)
(***************************************************************************)
DecimalSeparators == {",", "."}

\* the strings that differ from s only in which decimal separator stands
\* where s has one
SeparatorVariants(s) ==
    { [i \in 1..Len(s) |->
          IF s[i] \notin DecimalSeparators THEN s[i]
          ELSE IF i \in commas THEN "," ELSE "."] :
        commas \in SUBSET {i \in 1..Len(s) : s[i] \in DecimalSeparators} }

\* C22: replacing decimal commas by decimal points, or the reverse, in a
\* size string leaves the parsed list of numbers the same, and with it the
\* answer of create_box_design
C22_SeparatorAgnostic ==
    response.exc # "pending" =>
        \A v \in SeparatorVariants(request.div_l_custom) :
            /\ parse_compartment_sizes(v) = parse_compartment_sizes(request.div_l_custom)
            /\ create_box_design([request EXCEPT !.div_l_custom = v]) = response

\* a design returned for sizes written with a comma and with a point
C22_Witness ==
    /\ Returned /\ request.div_l >= 1
    /\ \E i \in 1..Len(request.div_l_custom) : request.div_l_custom[i] = ","
    /\ \E i \in 1..Len(request.div_l_custom) : request.div_l_custom[i] = "."
    /\ Len(parse_compartment_sizes(request.div_l_custom).sizes) = 2

(***************************************************************************)
(* Properties of the divider layout                                        *)
(***************************************************************************)
\* the length axis is partly specified: N >= 1 dividers and k sizes that
\* parse, 1 <= k < N + 1, in a request that is accepted without its length
\* dividers
PartlySpecifiedLength ==
    /\ response.exc # "pending"
    /\ request.div_l >= 1
    /\ parse_compartment_sizes(request.div_l_custom).exc = NoError
    /\ Len(GivenSizes) >= 1
    /\ Len(GivenSizes) < request.div_l + 1
    /\ create_box_design(WithoutLengthDividers(request)).exc = NoError

\* available - sum of the custom sizes
Leftover == QSub(AvailableLength, QSum(GivenSizes))

\* the given sizes, then the leftover in equal shares
FilledSizes ==
    GivenSizes \o Repeat(QDiv(Leftover, I(request.div_l + 1 - Len(GivenSizes))),
                         request.div_l + 1 - Len(GivenSizes))

\* what calculate_divider_configuration answers for the length axis
LengthConfiguration ==
    calculate_divider_configuration(LengthInternalOf(request), GivenSizes,
                                    request.div_l, request.thickness)

\* C17: with k < N + 1 custom sizes for N dividers the first k compartments
\* keep their sizes and each of the others gets (available - sum of the
\* custom sizes) / (N + 1 - k), available = internal length - N x thickness;
\* a negative leftover is rejected
C17_PartialSizes ==
    PartlySpecifiedLength =>
        IF QLt(Leftover, I(0))
        THEN /\ LengthConfiguration.exc = ValidationError
             /\ response.exc = ValidationError
        ELSE /\ LengthConfiguration.exc = NoError
             /\ LengthConfiguration.info.compartment_sizes = FilledSizes
             /\ Returned =>
                   response.design.length_dividers.compartment_sizes = FilledSizes

\* one size given for two dividers and a design returned: two compartments
\* share the leftover
C17_Witness ==
    /\ PartlySpecifiedLength /\ Returned
    /\ request.div_l = 2 /\ Len(GivenSizes) = 1
    /\ QGt(Leftover, I(0))

\* the divider layouts of the design the generator holds
DividerAxes == {core.design.length_dividers, core.design.width_dividers}

\* position i is the sum of the compartments up to i plus the thickness of
\* the dividers before it
RunningPositions(d, thickness) ==
    \A i \in 1..d.count :
        d.positions[i] = QAdd(QSum(SubSeq(d.compartment_sizes, 1, i)),
                              QS(i - 1, thickness))

\* consecutive positions grow by the next compartment plus one thickness
GrowingPositions(d, thickness) ==
    \A i \in 1..(d.count - 1) :
        /\ QLt(d.positions[i], d.positions[i + 1])
        /\ QSub(d.positions[i + 1], d.positions[i])
              = QAdd(d.compartment_sizes[i + 1], thickness)

\* the positions of both axes when the box is generated with kerf k
PositionsWithKerf(g) ==
    <<g.self.design.length_dividers.positions, g.self.design.width_dividers.positions>>

\* C18: divider position i (from 0) is the sum of the compartment sizes 0..i
\* plus i x thickness; positions increase strictly, consecutive ones differ
\* by the next compartment size plus one thickness, and no position depends
\* on the kerf
C18_DividerPositions ==
    LaidOut =>
        /\ Len(core.design.length_dividers.positions) = core.div_l
        /\ Len(core.design.width_dividers.positions) = core.div_w
        /\ \A d \in DividerAxes :
              RunningPositions(d, core.thickness) /\ GrowingPositions(d, core.thickness)
        /\ \A k \in KerfValues :
              /\ OtherKerf(k).exc = NoError
              /\ PositionsWithKerf(OtherKerf(k))
                    = <<core.design.length_dividers.positions,
                        core.design.width_dividers.positions>>

\* a generated box with two length dividers
C18_Witness ==
    /\ LaidOut
    /\ core.design.length_dividers.count = 2
    /\ core.design.width_dividers.count = 1

(***************************************************************************)
(* Properties of the layout                                                *)
(***************************************************************************)
WallNames == {"top", "bottom", "front", "back", "left", "right"}

WallExists(w, name) ==
    CASE name = "top" -> w.has_top
      [] name = "bottom" -> w.has_bottom
      [] name = "front" -> w.has_front
      [] name = "back" -> w.has_back
      [] name = "left" -> w.has_left
      [] name = "right" -> w.has_right

\* the number of placements the wall got
Placements(name) ==
    Cardinality({i \in 1..Len(last.panels) : last.panels[i].wall = name})

\* C15 as stated: under every layout style and box type every wall that
\* exists is placed exactly once and no absent wall is placed
C15_EveryWallPlacedOnce ==
    LaidOut =>
        \A name \in WallNames :
            Placements(name)
                = IF WallExists(get_wall_configuration(core.boxtype), name) THEN 1 ELSE 0

\* C15: under the diagrammatic and the inline style every wall that exists is
\* placed exactly once; under the 3 piece style that holds for the back, the
\* left and the bottom wall and no other wall is placed; an absent wall is
\* never placed
C15_WallsPlaced ==
    LaidOut =>
        \A name \in WallNames :
            Placements(name)
                = IF /\ WallExists(get_wall_configuration(core.boxtype), name)
                     /\ (core.style = 2 => name \in {"back", "left", "bottom"})
                  THEN 1 ELSE 0

\* a box without top and bottom laid out in the inline style: four panels
C15_Witness ==
    /\ LaidOut /\ core.style = 3 /\ core.boxtype = NO_BOTTOM
    /\ Len(last.panels) = 4

\* the placed panels that share the row (axis 2) or column (axis 1) of panel i
SameSlot(i, axis) ==
    {j \in 1..Len(last.panels) : last.panels[j].root[axis] = last.panels[i].root[axis]}

\* the extent of the row or column of panel i: the largest panel in it
SlotExtent(i, axis) ==
    last.panels[CHOOSE j \in SameSlot(i, axis) :
                    \A k \in SameSlot(i, axis) :
                        QLe(last.panels[k].size[axis], last.panels[j].size[axis])].size[axis]

\* one panel for every occupied row or column that lies before panel i
SlotsBefore(i, axis) ==
    {j \in 1..Len(last.panels) :
        /\ QLt(last.panels[j].root[axis], last.panels[i].root[axis])
        /\ \A k \in SameSlot(j, axis) : j <= k}

\* spacing x (occupied slots before + 1) + the extents of those slots
CompactRoot(i, axis) ==
    QAdd(QS(Cardinality(SlotsBefore(i, axis)) + 1, core.spacing),
         QSum([j \in 1..Len(last.panels) |->
                  IF j \in SlotsBefore(i, axis) THEN SlotExtent(j, axis) ELSE I(0)]))

\* C16: no dead space: the root coordinate of every placed panel is spacing x
\* (number of occupied columns, or rows, before it + 1) plus the summed
\* extents of those columns, or rows
C16_NoDeadSpace ==
    LaidOut =>
        \A i \in 1..Len(last.panels) : \A axis \in 1..2 :
            last.panels[i].root[axis] = CompactRoot(i, axis)

\* the same for every box type that has a left wall
C16_NoDeadSpaceWithLeftWall ==
    LaidOut /\ get_wall_configuration(core.boxtype).has_left => C16_NoDeadSpace

(***************************************************************************)
(* Properties of the validation                                            *)
(***************************************************************************)
\* generate_box has been called on the generator as it is
Called == last.op = "generate_box"

\* 40 mm with a top, 2 x thickness + 5 mm without
HeightFloor ==
    IF get_wall_configuration(core.boxtype).has_top THEN I(40)
    ELSE QAdd(QS(2, core.thickness), I(5))

HeightInRange == QGe(core.height, HeightFloor) /\ QLe(core.height, I(10000))

LengthAndWidthInRange ==
    \A name \in {"length", "width"} :
        QGe(core[name], I(40)) /\ QLe(core[name], I(10000))

\* C19: without a top the smallest height the dimension check accepts is
\* 2 x thickness + 5 mm; with a top every height under 40 mm is a dimension
\* error
C19_HeightFloor ==
    Called /\ LengthAndWidthInRange =>
        (last.exc = DimensionError <=> ~HeightInRange)

\* height 18 with thickness 3 and no top: the box is generated
C19_Witness ==
    /\ Called /\ core.boxtype = NO_TOP
    /\ core.height = I(18) /\ core.thickness = I(3)
    /\ last.exc = NoError

\* the smallest dimension that limits the tab: the height counts only when a
\* top or a bottom exists
SmallestRelevant ==
    IF get_wall_configuration(core.boxtype).has_top
       \/ get_wall_configuration(core.boxtype).has_bottom
    THEN QMin(core.height, QMin(core.length, core.width))
    ELSE QMin(core.length, core.width)

TabOutOfBounds ==
    \/ QLt(core.tab, I(2))
    \/ QLt(core.tab, QMul(Q(1, 2), core.thickness))
    \/ QGt(core.tab, QDiv(SmallestRelevant, I(3)))
    \/ QGt(core.tab, QS(20, core.thickness))

ThicknessInRange == QGe(core.thickness, Q(1, 10)) /\ QLe(core.thickness, I(50))

\* C20: with dimensions and thickness inside their ranges generate_box raises
\* a tab error exactly when the tab width is under 2 mm, under 0.5 x
\* thickness, over a third of the smallest relevant dimension or over
\* 20 x thickness
C20_TabErrorExactly ==
    Called /\ LengthAndWidthInRange /\ HeightInRange /\ ThicknessInRange =>
        (last.exc = TabError <=> TabOutOfBounds)

\* a tab error for a tab over 20 x thickness that is within a third of the
\* smallest relevant dimension, on a box without top and bottom whose height
\* is under three tab widths
C20_Witness ==
    /\ Called /\ last.exc = TabError
    /\ QGt(core.tab, QS(20, core.thickness))
    /\ QLe(core.tab, QDiv(SmallestRelevant, I(3)))
    /\ QGt(core.tab, QDiv(core.height, I(3)))

(***************************************************************************)
(* Properties of the edges                                                 *)
(***************************************************************************)
\* floor(length / tab), or floor((length - 2 x thickness) / tab) in waffle mode
CountedDivisions(length) ==
    IF core.tabsymmetry = 1
    THEN QFloor(QDiv(QSub(length, QS(2, core.thickness)), core.tab))
    ELSE QFloor(QDiv(length, core.tab))

\* C21: the division count of every edge is odd in the non-waffle symmetry
\* modes, floor(length / tab) or one less, and even in waffle mode,
\* floor((length - 2 x thickness) / tab) or one more
C21_DivisionParity ==
    Called =>
        \A i \in 1..Len(last.divisions) :
            IF core.tabsymmetry = 1
            THEN /\ last.divisions[i] % 2 = 0
                 /\ last.divisions[i] - CountedDivisions(last.lengths[i]) \in {0, 1}
            ELSE /\ last.divisions[i] % 2 = 1
                 /\ CountedDivisions(last.lengths[i]) - last.divisions[i] \in {0, 1}

\* a waffle box with an edge whose count was raised to the next even number
\* and an edge whose count was even already
C21_Witness ==
    /\ LaidOut /\ core.tabsymmetry = 1
    /\ \E i \in 1..Len(last.divisions) :
          last.divisions[i] = CountedDivisions(last.lengths[i]) + 1
    /\ \E i \in 1..Len(last.divisions) :
          last.divisions[i] = CountedDivisions(last.lengths[i])

\* the coordinate (1 for x, 2 for y) of the points of a line
Coordinates(line, axis) == {line[k][axis] : k \in 1..Len(line)}

QSetMax(S) == CHOOSE a \in S : \A b \in S : QLe(b, a)

QSetMin(S) == CHOOSE a \in S : \A b \in S : QLe(a, b)

\* the usable extent of an unsplit panel along its x axis (1) or y axis (2):
\* from the innermost line of its left (or top) edge to the innermost line of
\* its right (or bottom) edge; the edges are drawn top, right, bottom, left
InteriorExtent(panel, axis) ==
    IF axis = 1
    THEN QSub(QSetMin(Coordinates(panel.edges[2], 1)), QSetMax(Coordinates(panel.edges[4], 1)))
    ELSE QSub(QSetMin(Coordinates(panel.edges[3], 2)), QSetMax(Coordinates(panel.edges[1], 2)))

\* the box dimension a panel spans along its x axis (1) or y axis (2)
SpannedDimension(panel, axis) ==
    IF panel.face = 1 THEN (IF axis = 1 THEN core.length ELSE core.width)
    ELSE IF panel.face = 2 THEN (IF axis = 1 THEN core.length ELSE core.height)
    ELSE (IF axis = 1 THEN core.height ELSE core.width)

InteriorKept ==
    \A i \in 1..Len(last.panels) : \A axis \in 1..2 :
        InteriorExtent(last.panels[i], axis) = SpannedDimension(last.panels[i], axis)

\* C23: with internal dimensions and kerf 0 the usable extent of every
\* generated panel along each of its axes, between the inner faces of the
\* walls that exist and up to the free edge where a wall is absent, is the
\* internal dimension the user gave
C23_InteriorExtent ==
    LaidOut /\ core.inside /\ QIsZero(core.kerf) => InteriorKept

\* the same for the fully enclosed box
C23_InteriorExtentFullBox ==
    LaidOut /\ core.inside /\ QIsZero(core.kerf) /\ core.boxtype = FULL_BOX => InteriorKept

(***************************************************************************)
(* Properties of the rendered split panels                                 *)
(***************************************************************************)
RenderedPlans == core.design.split_info

\* the axis (1 for x, 2 for y) along which the parts of a panel follow each other
CutAxis(panel) == IF panel.rects[1].x # panel.rects[2].x THEN 1 ELSE 2

\* the dimension of the box that runs along an axis of a drawn panel
DrawnDimension(face, axis) ==
    IF face = 1 THEN (IF axis = 1 THEN "length" ELSE "width")
    ELSE IF face = 2 THEN (IF axis = 1 THEN "length" ELSE "height")
    ELSE (IF axis = 1 THEN "height" ELSE "width")

\* the dimension of the box a plan found to exceed the limit: the height of
\* get_piece_dimensions for a horizontal split, the width for a vertical one
PlannedDimension(wall, direction) ==
    IF wall \in {"front", "back"} THEN (IF direction = "horizontal" THEN "height" ELSE "length")
    ELSE IF wall \in {"left", "right"} THEN (IF direction = "horizontal" THEN "height" ELSE "width")
    ELSE (IF direction = "horizontal" THEN "width" ELSE "length")

RenderedByOwnPlan(panel) ==
    /\ panel.parts > 1 <=> panel.wall \in DOMAIN RenderedPlans
    /\ panel.parts > 1 /\ panel.wall \in DOMAIN RenderedPlans
         => /\ panel.parts = RenderedPlans[panel.wall].num_pieces
            /\ DrawnDimension(panel.face, CutAxis(panel))
                 = PlannedDimension(panel.wall, RenderedPlans[panel.wall].split_direction)

\* C24: a panel is rendered as several pieces exactly when the split plan
\* computed for that physical panel exists, and it is then cut along the
\* dimension that plan found to exceed the material limit
C24_OwnSplitPlan ==
    LaidOut => \A i \in 1..Len(last.panels) : RenderedByOwnPlan(last.panels[i])

\* what the piece loop does: the plan is looked up by the position of the
\* panel in the layout, under the name piece_names holds for that position
C24_PlanByPosition ==
    LaidOut =>
        \A i \in 1..Len(last.panels) :
            IF PieceNameAt(i) \in DOMAIN RenderedPlans
            THEN last.panels[i].parts = RenderedPlans[PieceNameAt(i)].num_pieces
            ELSE last.panels[i].parts = 1

\* where a rectangle starts and ends along an axis
RectStart(rect, axis) == IF axis = 1 THEN rect.x ELSE rect.y

RectEnd(rect, axis) ==
    IF axis = 1 THEN QAdd(rect.x, rect.dx) ELSE QAdd(rect.y, rect.dy)

\* the edges of the whole panel along an axis, kerf compensated
LeadingEdge(panel, axis) == QSub(panel.root[axis], core.halfkerf)

TrailingEdge(panel, axis) ==
    QAdd(QAdd(panel.root[axis], panel.size[axis]), core.halfkerf)

\* the overlap of the plan the panel at position i was cut by
AppliedOverlap(i) == RenderedPlans[PieceNameAt(i)].overlap

\* by how much part k reaches into part k + 1
Shared(panel, k) ==
    QSub(RectEnd(panel.rects[k], CutAxis(panel)),
         RectStart(panel.rects[k + 1], CutAxis(panel)))

SplitPanels == {i \in 1..Len(last.panels) : last.panels[i].parts > 1}

Covered(panel, overlap) ==
    /\ RectStart(panel.rects[1], CutAxis(panel)) = LeadingEdge(panel, CutAxis(panel))
    /\ RectEnd(panel.rects[panel.parts], CutAxis(panel)) = TrailingEdge(panel, CutAxis(panel))
    /\ \A k \in 1..(panel.parts - 1) : Shared(panel, k) = overlap

\* C25: the parts of a split panel cover it: the first starts at the leading
\* edge, the last ends at the trailing edge, and consecutive parts overlap
\* by exactly the planned overlap
C25_PartsCoverPanel ==
    LaidOut => \A i \in SplitPanels : Covered(last.panels[i], AppliedOverlap(i))

\* what generate_split_pieces renders: the first two parts share twice the
\* overlap, later neighbours three times the overlap, and the last of n parts
\* ends 2n - 3 overlaps before the trailing edge
C25_RenderedParts ==
    LaidOut =>
        \A i \in SplitPanels :
            /\ RectStart(last.panels[i].rects[1], CutAxis(last.panels[i]))
                 = LeadingEdge(last.panels[i], CutAxis(last.panels[i]))
            /\ \A k \in 1..(last.panels[i].parts - 1) :
                   Shared(last.panels[i], k) = QS(IF k = 1 THEN 2 ELSE 3, AppliedOverlap(i))
            /\ RectEnd(last.panels[i].rects[last.panels[i].parts], CutAxis(last.panels[i]))
                 = QSub(TrailingEdge(last.panels[i], CutAxis(last.panels[i])),
                        QS(2 * last.panels[i].parts - 3, AppliedOverlap(i)))

\* the material limit a plan was made for
SheetLimit(plan) ==
    IF plan.split_direction = "horizontal"
    THEN core.design.max_material_height ELSE core.design.max_material_width

\* the dimension of the named panel the plan divides
SheetWhole(name, plan) ==
    get_piece_dimensions(core.design)[name][IF plan.split_direction = "horizontal" THEN 2 ELSE 1]

\* the 25% rule left the piece count of the plan as first computed
NotCutBack(name) ==
    RenderedPlans[name].num_pieces
        = SplitNumPiecesFit(SheetWhole(name, RenderedPlans[name]),
                            SheetLimit(RenderedPlans[name]), RenderedPlans[name].overlap)

RectExtent(rect, axis) == IF axis = 1 THEN rect.dx ELSE rect.dy

PartsWithin(panel, limit) ==
    \A k \in 1..panel.parts : QLe(RectExtent(panel.rects[k], CutAxis(panel)), limit)

\* C26: when the 25% rule did not reduce the piece count, every rendered
\* part, overlap allowances included, is within the material limit along
\* the split axis
C26_PartsWithinLimit ==
    LaidOut =>
        \A i \in SplitPanels :
            NotCutBack(PieceNameAt(i))
                => PartsWithin(last.panels[i], SheetLimit(RenderedPlans[PieceNameAt(i)]))

\* the same for the panels cut in two
C26_TwoPartsWithinLimit ==
    LaidOut =>
        \A i \in SplitPanels :
            NotCutBack(PieceNameAt(i)) /\ last.panels[i].parts = 2
                => PartsWithin(last.panels[i], SheetLimit(RenderedPlans[PieceNameAt(i)]))

(***************************************************************************)
(* Properties of the outlines                                              *)
(***************************************************************************)
FirstPoint(line) == line[1]

LastPoint(line) == line[Len(line)]

\* the four edges of part k of a panel meet head to tail, the fourth
\* meeting the first
ClosedOutline(panel, k) ==
    \A e \in 1..4 :
        LastPoint(panel.edges[4 * (k - 1) + e])
            = FirstPoint(panel.edges[4 * (k - 1) + (e % 4) + 1])

SideBits == {8, 4, 2, 1}

\* the wall a side of a panel meets in the assembled box; the sides are a = 8
\* (upper edge of the drawing), b = 4 (right), c = 2 (lower) and d = 1 (left)
MatingWall(wall, bit) ==
    CASE wall = "top" ->
            (IF bit = 8 THEN "front" ELSE IF bit = 4 THEN "left"
             ELSE IF bit = 2 THEN "back" ELSE "right")
      [] wall = "bottom" ->
            (IF bit = 8 THEN "front" ELSE IF bit = 4 THEN "right"
             ELSE IF bit = 2 THEN "back" ELSE "left")
      [] wall = "front" ->
            (IF bit = 8 THEN "top" ELSE IF bit = 4 THEN "right"
             ELSE IF bit = 2 THEN "bottom" ELSE "left")
      [] wall = "back" ->
            (IF bit = 8 THEN "bottom" ELSE IF bit = 4 THEN "right"
             ELSE IF bit = 2 THEN "top" ELSE "left")
      [] wall = "left" ->
            (IF bit = 8 THEN "front" ELSE IF bit = 4 THEN "bottom"
             ELSE IF bit = 2 THEN "back" ELSE "top")
      [] wall = "right" ->
            (IF bit = 8 THEN "front" ELSE IF bit = 4 THEN "top"
             ELSE IF bit = 2 THEN "back" ELSE "bottom")

\* the side of the mating wall that meets the panel
MatingSide(wall, bit) ==
    CHOOSE other \in SideBits : MatingWall(MatingWall(wall, bit), other) = wall

BoxWalls == get_wall_configuration(core.boxtype)

\* the side is tabbed exactly when the wall it would meet exists
TabbedWhereMet(panel, bit) ==
    BitOf(panel.tabbed, bit) = 1 <=> WallExists(BoxWalls, MatingWall(panel.wall, bit))

\* where the panel of the mating wall was generated, its meeting side has
\* the other polarity
Complementary(panel, bit) ==
    \A j \in 1..Len(last.panels) :
        last.panels[j].wall = MatingWall(panel.wall, bit)
            => BitOf(last.panels[j].tabInfo, MatingSide(panel.wall, bit))
                 # BitOf(panel.tabInfo, bit)

\* C28: in the XY symmetric and the antisymmetric mode the polarity bits of
\* the two sides that mate are complementary for every pair of adjacent
\* panels of every box type, and a side is tabbed exactly when the wall it
\* would mate with exists
C28_MatingSides ==
    LaidOut /\ core.tabsymmetry \in {0, 2} =>
        \A i \in 1..Len(last.panels) : \A bit \in SideBits :
            /\ TabbedWhereMet(last.panels[i], bit)
            /\ Complementary(last.panels[i], bit)

\* an antisymmetric box without its top was generated: its bottom panel
\* mates with the front panel, whose upper side meets no wall
C28_Witness ==
    /\ LaidOut
    /\ core.tabsymmetry = 2 /\ core.boxtype = NO_TOP
    /\ \E i, j \in 1..Len(last.panels) :
          /\ last.panels[i].wall = "bottom" /\ last.panels[j].wall = "front"
          /\ BitOf(last.panels[i].tabbed, 8) = 1
          /\ BitOf(last.panels[j].tabbed, 8) = 0
          /\ BitOf(last.panels[i].tabInfo, 8) # BitOf(last.panels[j].tabInfo, 2)

(***************************************************************************)
(* Properties of the divider panels                                        *)
(***************************************************************************)
DividersOf(group) ==
    {n \in 1..Len(last.dividers) : last.dividers[n].group = group}

DividersDrawn ==
    /\ Cardinality(DividersOf("x_divider")) = core.div_l
    /\ Cardinality(DividersOf("y_divider")) = core.div_w
    /\ \A n \in 1..Len(last.dividers) :
          /\ Len(last.dividers[n].edges) = 4
          /\ \A k \in 1..4 : Len(last.dividers[n].edges[k]) >= 2

\* C29: every configuration that generates has exactly div_l divider panels
\* along the length and div_w along the width, of four edges each, under
\* every layout and box type
C29_DividerPanels ==
    LaidOut => DividersDrawn

\* the same where the layout places at least two panels
C29_DividerPanelsOfTwoPieces ==
    LaidOut /\ Len(last.panels) >= 2 => DividersDrawn

(***************************************************************************)
(* Properties of the divider keying                                        *)
(***************************************************************************)
\* a notch was cut into the panel: a call of side() for one of its edges
\* appended a path before the line
Notched(panel) == \E k \in 1..Len(panel.holes) : panel.holes[k] > 0

\* the wall panels (front, back, left, right) and the floor and ceiling panels
WallPanels == {i \in 1..Len(last.panels) : last.panels[i].face > 1}

FloorPanels == {i \in 1..Len(last.panels) : last.panels[i].face = 1}

WallsNotched == \E i \in WallPanels : Notched(last.panels[i])

FloorNotched == \E i \in FloorPanels : Notched(last.panels[i])

\* a closed box with dividers both ways in the diagrammatic layout: every
\* panel is crossed by a divider
FullyDivided ==
    core.boxtype = FULL_BOX /\ core.style = 1 /\ core.div_l > 0 /\ core.div_w > 0

\* notches in the walls only under the modes of walls, in the floor only
\* under the modes of floor, and in both where every panel is crossed
KeyedBy(walls, floor) ==
    /\ WallsNotched => core.keydiv \in walls
    /\ FloorNotched => core.keydiv \in floor
    /\ FullyDivided =>
          /\ core.keydiv \in walls => \A i \in WallPanels : Notched(last.panels[i])
          /\ core.keydiv \in floor => \A i \in FloorPanels : Notched(last.panels[i])

\* C30: keying notches are cut into the wall panels exactly for the modes
\* WALLS_AND_FLOOR and WALLS_ONLY, into the floor and ceiling panels exactly
\* for WALLS_AND_FLOOR and FLOOR_ONLY, and NONE cuts none
C30_KeyingByMode ==
    LaidOut => KeyedBy({WALLS_AND_FLOOR, WALLS_ONLY}, {WALLS_AND_FLOOR, FLOOR_ONLY})

\* what generate_box does: the walls are notched for the values 0 and 2,
\* the floor and ceiling for 0 and 1
C30_KeyingByValue ==
    LaidOut => KeyedBy({WALLS_AND_FLOOR, FLOOR_ONLY}, {WALLS_AND_FLOOR, WALLS_ONLY})

====
